---- MODULE Spec2Model ----
(***************************************************************************)
(* A model of the boxed-expression engine of compute-engine:               *)
(*   - BoxedFunction (the heap of function expressions, their cached       *)
(*     canonical form, bound definition and cached values),                *)
(*   - makeCanonicalFunction and its helpers,                              *)
(*   - match, sgn, lambda, holdMap and the end of N,                       *)
(*   - the rule loop of BoxedFunction.simplify,                            *)
(*   - LatexSyntax.parse.                                                  *)
(* Expression objects are modelled as cells of a heap so that reference    *)
(* identity (===) is equality of heap indices.                             *)
(***************************************************************************)
EXTENDS Integers, Sequences, FiniteSets, TLC

VARIABLES
  heap,          \* Seq of expression objects; the index is the object's identity
  context,       \* ce.context: the scope stack, innermost last; <<>> is null
  last,          \* record of the last operation: what ran, on what, what it returned
  loop,          \* the state of the rule loop of BoxedFunction.simplify
  parser         \* the state of LatexSyntax.parse: input tokens and result

vars == <<heap, context, last, loop, parser>>

-----------------------------------------------------------------------------
(* Bounds *)

MaxSize == 3          \* nodes of the expression that is boxed
MaxHeap == 7          \* objects on the heap
MaxScopes == 2        \* depth of the scope stack
MaxBuilt == 2         \* objects built with `new BoxedFunction` by a caller
MaxTokens == 3        \* length of the token stream handed to parse
MaxCost == 2          \* largest value of the engine's costFunction
MaxIterationLimit == 3   \* largest engine.iterationLimit
MaxNumber == 3        \* largest real or imaginary part of a numeric literal
MaxArity == 2         \* most operands of a pattern or of its target
MaxNesting == 3       \* most Add nodes of an expression
MaxFactors == 3       \* most factors of a product that is parsed
MaxScripts == 3       \* most scripts that follow a big operator
MaxLevel == 2         \* highest nesting level at which serialization starts

-----------------------------------------------------------------------------
(* Values *)

Undefined == 0        \* `undefined` where an object reference is expected
NullDef == "null"             \* _def not fetched yet
UndefinedDef == "undefined"   \* no definition

\* The heads of the expressions that are boxed: an involution, a function
\* with handlers, a function without definition, and the error marker.
Heads == {"Negate", "Sqrt", "g", "Error"}

LibraryNames ==
  {"Negate", "Add", "Sqrt", "Sin", "Abs", "Lambda", "Divide", "Log", "Sum", "Random"}

FunctionDefs ==
  [n \in LibraryNames |->
     [associative |-> n = "Add", commutative |-> n = "Add",
      idempotent |-> n = "Abs", involution |-> n = "Negate",
      scoped |-> n \in {"Lambda", "Sum"}, inert |-> FALSE,
      args |-> CASE n = "Add" -> << [ctor |-> "Sequence", dom |-> "Number"] >>
                 [] n = "Divide" -> << [ctor |-> "", dom |-> "Number"],
                                       [ctor |-> "", dom |-> "Number"] >>
                 [] n = "Log" -> << [ctor |-> "", dom |-> "Number"],
                                    [ctor |-> "Maybe", dom |-> "Number"] >>
                 [] OTHER -> << [ctor |-> "", dom |-> "Number"] >>,
      codomain |-> "Number",
      canonical |-> n \in {"Sqrt", "Sum"},
      simplify |-> n \in {"Sqrt", "Sin"},
      evaluate |-> n \in {"Sqrt", "Sin"},
      N |-> n \in {"Sqrt", "Sin"},
      hold |-> IF n = "Lambda" THEN "all" ELSE "none",
      pure |-> n # "Random",
      complexity |-> CASE n = "Negate" -> 1100 [] n = "Add" -> 1000
                       [] n = "Sqrt" -> 3000 [] n = "Sin" -> 5000
                       [] n = "Abs" -> 1200 [] n = "Lambda" -> 9000
                       [] n = "Divide" -> 2500 [] n = "Log" -> 4100
                       [] n = "Sum" -> 9100 [] OTHER -> 9200]]

LibraryScope == LibraryNames

-----------------------------------------------------------------------------
(* BoxedFunction: fields and read-only accessors *)

\* A symbol: canonical, valid, without operands. `self` is its own index.
SymbolObject(name, self) ==
  [kind |-> "sym", head |-> name, headExpr |-> Undefined, ops |-> << >>,
   canonical |-> self, def |-> UndefinedDef, value |-> Undefined,
   numericValue |-> Undefined, code |-> ""]

NothingId == 1             \* ce.symbol('Nothing')
XId == NothingId + 1       \* the free variable x

\* new BoxedFunction(ce, head, ops, {canonical, def}): the heap after the
\* construction; the new object is the last cell.
BoxedFunction(h, head, headExpr, ops, canonical, def) ==
  Append(h,
    [kind |-> "fn", head |-> head, headExpr |-> headExpr, ops |-> ops,
     canonical |-> IF canonical THEN Len(h) + 1 ELSE Undefined,
     def |-> def, value |-> Undefined, numericValue |-> Undefined,
     code |-> ""])

isCanonical(h, e) == h[e].canonical = e

\* get functionDefinition() without the test of the canonical flag
functionDefinitionOfAny(h, e) ==
  IF h[e].def # NullDef THEN h[e].def ELSE UndefinedDef

functionDefinition(h, e) ==
  IF ~isCanonical(h, e) THEN UndefinedDef
  ELSE IF h[e].def # NullDef THEN h[e].def
  ELSE UndefinedDef

RECURSIVE isValid(_, _)
isValid(h, e) ==
  IF h[e].kind = "sym" THEN TRUE
  ELSE IF h[e].headExpr # Undefined THEN
    IF ~isValid(h, h[e].headExpr) THEN FALSE
    ELSE \A i \in 1..Len(h[e].ops) : isValid(h, h[e].ops[i])
  ELSE IF h[e].head = "Error" THEN FALSE
  ELSE IF h[e].canonical # e THEN TRUE
  ELSE IF functionDefinition(h, e) = UndefinedDef THEN FALSE
  ELSE \A i \in 1..Len(h[e].ops) : isValid(h, h[e].ops[i])

op1(h, e) == IF Len(h[e].ops) >= 1 THEN h[e].ops[1] ELSE NothingId

-----------------------------------------------------------------------------
(* The engine: scopes, definitions, domains, errors *)

\* ce.lookupFunction(head, ce.context): the scope stack is searched from the
\* innermost frame outwards.
lookupFunction(head, ctx) ==
  IF \E i \in 1..Len(ctx) : head \in ctx[i] THEN head ELSE UndefinedDef

pushScope(ctx) == Append(ctx, {})
popScope(ctx) == IF Len(ctx) = 0 THEN ctx ELSE SubSeq(ctx, 1, Len(ctx) - 1)

\* ce.error(code, where): a canonical ["Error", ...] expression
error(h, code, where) ==
  Append(h,
    [kind |-> "fn", head |-> "Error", headExpr |-> Undefined, ops |-> where,
     canonical |-> Len(h) + 1, def |-> NullDef, value |-> Undefined,
     numericValue |-> Undefined, code |-> code])

\* x.domain of a canonical operand
domain(h, e) ==
  IF h[e].kind = "sym" THEN (IF e = NothingId THEN "Nothing" ELSE "Number")
  ELSE IF h[e].head = "Error" THEN "Void"
  ELSE IF h[e].def \in LibraryNames THEN FunctionDefs[h[e].def].codomain
  ELSE "Number"

isCompatible(dom, expected) == expected = "Anything" \/ dom = expected

RECURSIVE signatureCompatible(_, _)
signatureCompatible(expectedArgs, opsDomain) ==
  IF expectedArgs = << >> THEN opsDomain = << >>
  ELSE LET a == Head(expectedArgs) IN
    IF a.ctor = "Sequence" THEN
      /\ opsDomain # << >>
      /\ \A j \in 1..Len(opsDomain) : isCompatible(opsDomain[j], a.dom)
    ELSE IF opsDomain = << >> THEN
      a.ctor = "Maybe" /\ signatureCompatible(Tail(expectedArgs), opsDomain)
    ELSE
      /\ isCompatible(Head(opsDomain), a.dom)
      /\ signatureCompatible(Tail(expectedArgs), Tail(opsDomain))

isWildcard(h, e) == h[e].kind = "sym" /\ h[e].head \in {"_", "__", "_1", "_2"}

\* The loop of validateSignature from position i on; returns the heap and
\* the operands pushed from i on.
RECURSIVE validateFrom(_, _, _, _)
validateFrom(h, expectedArgs, ops, i) ==
  LET count == IF Len(expectedArgs) > Len(ops) THEN Len(expectedArgs) ELSE Len(ops) IN
  IF i > count THEN [h |-> h, r |-> << >>]
  ELSE IF i > Len(expectedArgs) THEN
    LET h1 == error(h, "unexpected-argument", << ops[i] >>)
        rest == validateFrom(h1, expectedArgs, ops, i + 1)
    IN [h |-> rest.h, r |-> << Len(h1) >> \o rest.r]
  ELSE IF i > Len(ops) THEN
    IF expectedArgs[i].ctor = "Maybe" THEN [h |-> h, r |-> << NothingId >>]
    ELSE LET h1 == error(h, "missing", << >>) IN [h |-> h1, r |-> << Len(h1) >>]
  ELSE IF expectedArgs[i].ctor = "Sequence" THEN
    \* every remaining operand is checked against the sequence's domain
    LET RECURSIVE seqFrom(_, _)
        seqFrom(hh, j) ==
          IF j > Len(ops) THEN [h |-> hh, r |-> << >>]
          ELSE IF ~isCompatible(domain(hh, ops[j]), expectedArgs[i].dom) THEN
            LET h1 == error(hh, "incompatible-domain", << ops[j] >>)
                rest == seqFrom(h1, j + 1)
            IN [h |-> rest.h, r |-> << Len(h1) >> \o rest.r]
          ELSE LET rest == seqFrom(hh, j + 1)
               IN [h |-> rest.h, r |-> << ops[j] >> \o rest.r]
    IN seqFrom(h, i)
  ELSE IF ~isWildcard(h, ops[i])
          /\ ~isCompatible(domain(h, ops[i]), expectedArgs[i].dom) THEN
    LET h1 == error(h, "incompatible-domain", << ops[i] >>)
        rest == validateFrom(h1, expectedArgs, ops, i + 1)
    IN [h |-> rest.h, r |-> << Len(h1) >> \o rest.r]
  ELSE
    LET rest == validateFrom(h, expectedArgs, ops, i + 1)
    IN [h |-> rest.h, r |-> << ops[i] >> \o rest.r]

\* validateSignature(ce, sig, ops) ?? ops
validateSignature(h, def, ops) ==
  LET expectedArgs == FunctionDefs[def].args
      opsDomain == [j \in 1..Len(ops) |-> domain(h, ops[j])]
  IN IF signatureCompatible(expectedArgs, opsDomain) THEN [h |-> h, r |-> ops]
     ELSE validateFrom(h, expectedArgs, ops, 1)

\* flattenSequence(xs)
RECURSIVE flattenSequence(_, _)
flattenSequence(h, xs) ==
  IF xs = << >> THEN << >>
  ELSE (IF h[Head(xs)].kind = "fn" /\ h[Head(xs)].head = "Sequence"
        THEN h[Head(xs)].ops ELSE << Head(xs) >>)
       \o flattenSequence(h, Tail(xs))

\* flattenOps(ops, head) ?? ops
RECURSIVE flattenOps(_, _, _)
flattenOps(h, xs, head) ==
  IF xs = << >> THEN << >>
  ELSE (IF h[Head(xs)].kind = "fn" /\ h[Head(xs)].headExpr = Undefined
           /\ h[Head(xs)].head = head
        THEN h[Head(xs)].ops ELSE << Head(xs) >>)
       \o flattenOps(h, Tail(xs), head)

\* order(a, b) < 0: complexity first, then the position on the heap
complexity(h, e) ==
  IF h[e].kind = "sym" THEN 7
  ELSE IF h[e].def \in LibraryNames THEN FunctionDefs[h[e].def].complexity
  ELSE 100000

order(h, a, b) ==
  \/ complexity(h, a) < complexity(h, b)
  \/ complexity(h, a) = complexity(h, b) /\ a < b

sortOps(h, ops) == SortSeq(ops, LAMBDA a, b : order(h, a, b))

-----------------------------------------------------------------------------
(* Canonicalization.  Every operator that may create objects or change the *)
(* scope stack returns a record: h the heap, ctx the scope stack, n the    *)
(* number of definition handlers it invoked, r its result.                 *)

\* sig.canonical(ce, ops) of a library definition: "the result of the handler
\* should be a canonical expression"
canonicalHandler(h, def, ops) == BoxedFunction(h, def, Undefined, ops, TRUE, def)

allValid(h, ops) == \A i \in 1..Len(ops) : isValid(h, ops[i])

sameHead(h, e, head) ==
  h[e].kind = "fn" /\ h[e].headExpr = Undefined /\ h[e].head = head

RECURSIVE apply(_, _, _, _)
RECURSIVE canonical(_, _, _)
RECURSIVE canonicalOps(_, _, _)
RECURSIVE makeCanonicalFunction(_, _, _, _, _)

Result(h, ctx, n, r) == [h |-> h, ctx |-> ctx, n |-> n, r |-> r]

\* the result res after k more handler calls
addN(res, k) == [res EXCEPT !.n = @ + k]

\* the result of mapping over a list: the element a, then the rest b
cons(a, b) == [h |-> b.h, ctx |-> b.ctx, n |-> a.n + b.n, r |-> << a.r >> \o b.r]

\* this._canonical = makeCanonicalFunction(...)
setCanonical(e, m) == [m EXCEPT !.h = [m.h EXCEPT ![e].canonical = m.r]]

\* get canonical() that forgets to store the canonical form it computes
canonicalNotCached(h, ctx, e) ==
  IF h[e].canonical # Undefined THEN Result(h, ctx, 0, h[e].canonical)
  ELSE IF isValid(h, e) THEN
    makeCanonicalFunction(h, ctx, h[e].head, h[e].headExpr, h[e].ops)
  ELSE Result([h EXCEPT ![e].canonical = e], ctx, 0, e)

\* get canonical()
canonical(h, ctx, e) ==
  IF h[e].canonical # Undefined THEN Result(h, ctx, 0, h[e].canonical)
  ELSE IF isValid(h, e) THEN
    setCanonical(e, makeCanonicalFunction(h, ctx, h[e].head, h[e].headExpr, h[e].ops))
  ELSE Result([h EXCEPT ![e].canonical = e], ctx, 0, e)

canonicalRest(a, rest) == cons(a, canonicalOps(a.h, a.ctx, rest))

\* ops.map((x) => x.canonical)
canonicalOps(h, ctx, ops) ==
  IF ops = << >> THEN Result(h, ctx, 0, << >>)
  ELSE canonicalRest(canonical(h, ctx, Head(ops)), Tail(ops))

\* new BoxedFunction(ce, head, ops, {canonical: true, def})
newCanonical(h, ctx, n, head, headExpr, ops, def) ==
  Result(BoxedFunction(h, head, headExpr, ops, TRUE, def), ctx, n, Len(h) + 1)

\* the end of makeCanonicalFunction: sort the operands of a commutative
\* function, build the expression
canonicalSorted(h, ctx, n, head, def, ops) ==
  newCanonical(h, ctx, n, head, Undefined,
    IF Len(ops) > 1 /\ FunctionDefs[def].commutative THEN sortOps(h, ops) ELSE ops,
    def)

\* makeCanonicalFunction once the operands are validated against the
\* signature of def: v.h the heap, v.r the operands, ctx1 the scope stack
\* (with the scope of a scoped function pushed), n the handler calls so far
canonicalValidated(v, ctx1, n, head, def) ==
  LET F == FunctionDefs[def]
      ops3 == v.r
      ctx2 == IF F.scoped THEN popScope(ctx1) ELSE ctx1
      nested == Len(ops3) = 1 /\ sameHead(v.h, ops3[1], head)
  IN
  IF ~allValid(v.h, ops3) THEN newCanonical(v.h, ctx2, n, head, Undefined, ops3, def)
  ELSE IF F.canonical THEN
    Result(canonicalHandler(v.h, def, ops3), ctx1, n + 1, Len(v.h) + 1)
  ELSE IF nested /\ F.involution THEN
    \* f(f(x)) -> x
    Result(v.h, ctx1, n, op1(v.h, ops3[1]))
  ELSE
    \* f(f(x)) -> f(x)
    canonicalSorted(v.h, ctx2, n, head, def,
      IF nested /\ F.idempotent THEN v.h[ops3[1]].ops ELSE ops3)

\* makeCanonicalFunction once the definition is found, without the
\* associative flattening
canonicalDefinedNested(c, head, def, ops1) ==
  canonicalValidated(
    validateSignature(c.h, def, ops1),
    IF FunctionDefs[def].scoped THEN pushScope(c.ctx) ELSE c.ctx,
    c.n, head, def)

\* makeCanonicalFunction once the definition is found: associative
\* flattening, the scope of a scoped function, the signature
canonicalDefined(c, head, def, ops1) ==
  canonicalValidated(
    validateSignature(c.h, def,
      IF FunctionDefs[def].associative THEN flattenOps(c.h, ops1, head) ELSE ops1),
    IF FunctionDefs[def].scoped THEN pushScope(c.ctx) ELSE c.ctx,
    c.n, head, def)

\* makeCanonicalFunction once the head is known; ops1 the operands
\* flattened
canonicalLookup(c, head, headExpr, ops1) ==
  IF headExpr # Undefined \/ c.ctx = << >>
       \/ lookupFunction(head, c.ctx) = UndefinedDef
  THEN newCanonical(c.h, c.ctx, c.n, head, headExpr, ops1, NullDef)
  ELSE canonicalDefined(c, head, lookupFunction(head, c.ctx), ops1)

canonicalFlat(c, head, headExpr) ==
  canonicalLookup(c, head, headExpr, flattenSequence(c.h, c.r))

\* head = head.evaluate().symbol ?? head, ev being head.evaluate()
canonicalEvaluated(c0, ev, head0, headExpr0) ==
  IF ev.h[ev.r].kind = "sym"
  THEN canonicalFlat(Result(ev.h, ev.ctx, c0.n + ev.n, c0.r), ev.h[ev.r].head, Undefined)
  ELSE canonicalFlat(Result(ev.h, ev.ctx, c0.n + ev.n, c0.r), head0, headExpr0)

\* makeCanonicalFunction once the operands are canonical
canonicalHead(c0, head0, headExpr0) ==
  IF headExpr0 = Undefined THEN canonicalFlat(c0, head0, Undefined)
  ELSE canonicalEvaluated(c0, apply(c0.h, c0.ctx, headExpr0, "evaluate"),
                          head0, headExpr0)

makeCanonicalFunction(h, ctx, head0, headExpr0, ops0) ==
  canonicalHead(canonicalOps(h, ctx, ops0), head0, headExpr0)

\* ce.fn(head, ops): "return a canonical expression"
fn(h, ctx, head, ops) == makeCanonicalFunction(h, ctx, head, Undefined, ops)

\* A number literal: an atom of the heap, like a symbol, its value in
\* numericValue
NumberObject(n, self) ==
  [SymbolObject("Number", self) EXCEPT !.numericValue = n]

\* the names `_${n}` of the positional wildcards
PositionalNames == << "_1", "_2", "_3" >>
WildcardNames == {"_", "__", "_#"} \cup { PositionalNames[k] : k \in 1..Len(PositionalNames) }

\* the substitution built by lambda that maps _1 to the last argument
substitutionFromLast(args, tuple, count) ==
  [name \in WildcardNames |->
     IF name = "__" THEN tuple
     ELSE IF name = "_#" THEN count
     ELSE IF name = "_" THEN (IF args = << >> THEN Undefined ELSE args[Len(args)])
     ELSE IF \E k \in 1..Len(args) : k <= Len(PositionalNames) /\ PositionalNames[k] = name
     THEN args[Len(args) + 1 - (CHOOSE k \in 1..Len(args) :
                                  k <= Len(PositionalNames) /\ PositionalNames[k] = name)]
     ELSE Undefined]

\* the substitution built by lambda: the expression of each wildcard,
\* Undefined for a wildcard without prop
substitution(args, tuple, count) ==
  [name \in WildcardNames |->
     IF name = "__" THEN tuple
     ELSE IF name = "_#" THEN count
     ELSE IF name = "_" THEN (IF args = << >> THEN Undefined ELSE args[1])
     ELSE IF \E k \in 1..Len(args) : k <= Len(PositionalNames) /\ PositionalNames[k] = name
     THEN args[CHOOSE k \in 1..Len(args) :
                 k <= Len(PositionalNames) /\ PositionalNames[k] = name]
     ELSE Undefined]

\* the subs of a symbol: the expression the substitution has for its name,
\* or the symbol
subsSymbol(h, e, sub) ==
  IF h[e].head \in DOMAIN sub /\ sub[h[e].head] # Undefined
  THEN sub[h[e].head] ELSE e

\* BoxedFunction.subs(sub): the symbols are substituted, the functions are
\* rebuilt
RECURSIVE subs(_, _, _, _)
RECURSIVE subsOps(_, _, _, _)

subsMake(a, head, headExpr) ==
  addN(makeCanonicalFunction(a.h, a.ctx, head, headExpr, a.r), a.n)

subs(h, ctx, e, sub) ==
  IF h[e].kind = "sym" THEN Result(h, ctx, 0, subsSymbol(h, e, sub))
  ELSE subsMake(subsOps(h, ctx, h[e].ops, sub), h[e].head, h[e].headExpr)

subsRest(a, rest, sub) == cons(a, subsOps(a.h, a.ctx, rest, sub))

subsOps(h, ctx, ops, sub) ==
  IF ops = << >> THEN Result(h, ctx, 0, << >>)
  ELSE subsRest(subs(h, ctx, Head(ops), sub), Tail(ops), sub)

\* does the symbol name occur in the operands of e, at any depth
RECURSIVE mentions(_, _, _)
mentions(h, e, name) ==
  IF h[e].kind = "sym" THEN h[e].head = name
  ELSE \E i \in 1..Len(h[e].ops) : mentions(h, h[e].ops[i], name)

\* fn.engine.tuple(args); an object that no reference can reach (the tuple
\* of a template without __) is not kept in the heap
lambdaTuple(h, ctx, f, args) ==
  IF mentions(h, f, "__") THEN fn(h, ctx, "Tuple", args)
  ELSE Result(h, ctx, 0, Undefined)

\* fn.engine.number(args.length), t the result of lambdaTuple; r becomes
\* the pair of the tuple and the number
lambdaNumber(t, f, args) ==
  IF mentions(t.h, f, "_#")
  THEN [t EXCEPT !.h = Append(t.h, NumberObject(Len(args), Len(t.h) + 1)),
                 !.r = << t.r, Len(t.h) + 1 >>]
  ELSE [t EXCEPT !.r = << t.r, Undefined >>]

\* return fn.subs(subs), a the tuple and the number
lambdaSubs(a, f, args) ==
  addN(subs(a.h, a.ctx, f, substitution(args, a.r[1], a.r[2])), a.n)

\* lambda(ce, fn, args)
lambda(h, ctx, f, args) ==
  lambdaSubs(lambdaNumber(lambdaTuple(h, ctx, f, args), f, args), f, args)

-----------------------------------------------------------------------------
(* simplify, evaluate and N *)

\* applicable(skip, count, index), index counted from 0
applicable(skip, count, index) ==
  CASE skip = "all" -> FALSE
    [] skip = "none" -> TRUE
    [] skip = "first" -> index # 0
    [] skip = "rest" -> index = 0
    [] skip = "last" -> index # count
    [] skip = "most" -> index = count
    [] OTHER -> FALSE

RECURSIVE holdMapFrom(_, _, _, _, _, _)
RECURSIVE applyValid(_, _, _, _)

\* result.push(x)
push(x, rest) == [rest EXCEPT !.r = << x >> \o @]

\* result.push(f(x)), x being the result of the call of f
holdMapNext(x, xs, skip, i, m) ==
  cons(x, holdMapFrom(x.h, x.ctx, xs, skip, i + 1, m))

\* the loop of holdMap from position i (counted from 1) on, f being
\* x.simplify(), x.evaluate() or x.N() according to m
holdMapFrom(h, ctx, xs, skip, i, m) ==
  IF i > Len(xs) THEN Result(h, ctx, 0, << >>)
  ELSE IF sameHead(h, xs[i], "Hold") THEN
    push(op1(h, xs[i]), holdMapFrom(h, ctx, xs, skip, i + 1, m))
  ELSE IF sameHead(h, xs[i], "ReleaseHold") THEN
    holdMapNext(apply(h, ctx, op1(h, xs[i]), m), xs, skip, i, m)
  ELSE IF applicable(skip, Len(xs) - 1, i - 1) THEN
    holdMapNext(apply(h, ctx, xs[i], m), xs, skip, i, m)
  ELSE push(xs[i], holdMapFrom(h, ctx, xs, skip, i + 1, m))

\* flattenOps(result, head) of an associative function
holdMapFlat(res, head) == [res EXCEPT !.r = flattenOps(res.h, @, head)]

\* holdMap(head, xs, skip, associative, f)
holdMap(h, ctx, head, xs0, skip, associative, m) ==
  IF xs0 = << >> THEN Result(h, ctx, 0, << >>)
  ELSE IF associative THEN
    holdMapFlat(holdMapFrom(h, ctx, flattenOps(h, xs0, head), skip, 1, m), head)
  ELSE holdMapFrom(h, ctx, xs0, skip, 1, m)

\* BoxedFunction.simplify (m = "simplify", called with an empty rule set in
\* options.rules), BoxedFunction.evaluate (m = "evaluate") and
\* BoxedFunction.N (m = "N").  The handlers of the library definitions find
\* nothing to rewrite in symbolic operands and return undefined.
applyAlways(h, ctx, e, m) ==
  IF h[e].kind = "sym" THEN Result(h, ctx, 0, e)
  ELSE applyValid(h, ctx, e, m)

apply(h, ctx, e, m) ==
  IF h[e].kind = "sym" THEN Result(h, ctx, 0, e)
  ELSE IF ~isValid(h, e) THEN Result(h, ctx, 0, e)
  ELSE applyValid(h, ctx, e, m)

\* return this.canonical.simplify(options), c being this.canonical
applyCanonical(c, m) == addN(apply(c.h, c.ctx, c.r, m), c.n)

\* return lambda(this.engine, this._head, tail).simplify(options), l being
\* the result of lambda
applyLambda(l, m, n) == addN(apply(l.h, l.ctx, l.r, m), l.n + n)

\* the handler of the definition, which returns undefined, and then
\* this.engine.fn(this._head, tail), rebuilt; for N, its evaluate()
applyHandler(m, def, n, rebuilt) ==
  IF def = UndefinedDef THEN addN(rebuilt, n)
  ELSE IF m = "N" THEN
    addN(apply(rebuilt.h, rebuilt.ctx, rebuilt.r, "evaluate"),
         rebuilt.n + n + (IF FunctionDefs[def].N THEN 1 ELSE 0))
  ELSE addN(rebuilt, n + (IF FunctionDefs[def][m] THEN 1 ELSE 0))

\* the steps after the operands are mapped, t being the result of holdMap
applyTail(h, e, m, def, t) ==
  IF h[e].headExpr # Undefined THEN
    applyLambda(lambda(t.h, t.ctx, h[e].headExpr, t.r), m, t.n)
  ELSE IF def # UndefinedDef /\ FunctionDefs[def].inert THEN
    IF t.r = << >> THEN [t EXCEPT !.r = e]
    ELSE IF m = "simplify" THEN addN(canonical(t.h, t.ctx, t.r[1]), t.n)
    ELSE [t EXCEPT !.r = t.r[1]]
  ELSE applyHandler(m, def, t.n, fn(t.h, t.ctx, h[e].head, t.r))

\* the steps after `if (!this.isValid) return this`
applyValid(h, ctx, e, m) ==
  IF ~isCanonical(h, e) THEN applyCanonical(canonical(h, ctx, e), m)
  ELSE IF functionDefinition(h, e) # UndefinedDef THEN
    applyTail(h, e, m, functionDefinition(h, e),
      holdMap(h, ctx, functionDefinition(h, e), h[e].ops,
              FunctionDefs[functionDefinition(h, e)].hold,
              FunctionDefs[functionDefinition(h, e)].associative, m))
  ELSE
    applyTail(h, e, m, UndefinedDef,
      holdMap(h, ctx, "", h[e].ops, "none", FALSE, m))

-----------------------------------------------------------------------------
(* The expressions that are boxed: MathJSON trees *)

\* A tree: a head (a string, or the tree in hx when the head is itself an
\* expression) and operands.  The symbol x has no operands and no hx.
Sym == [head |-> "x", hx |-> << >>, ops |-> << >>]
Node(hd, ops) == [head |-> hd.head, hx |-> hd.hx, ops |-> ops]

\* the trees with exactly s nodes (symbols and the nodes of a head that is
\* an expression included), and the operand lists with n nodes in all
RECURSIVE TreesOf(_)
RECURSIVE OpsOf(_)
TreesOf(s) ==
  (IF s = 1 THEN {Sym} ELSE {})
  \cup { Node([head |-> hd, hx |-> << >>], ops) : hd \in Heads, ops \in OpsOf(s - 1) }
  \cup UNION { { Node([head |-> "", hx |-> << t >>], ops) :
                   t \in TreesOf(j) \ {Sym}, ops \in OpsOf(s - 1 - j) }
               : j \in 1..(s - 1) }

OpsOf(n) ==
  IF n = 0 THEN { << >> }
  ELSE UNION { { << t >> \o rest : t \in TreesOf(j), rest \in OpsOf(n - j) }
               : j \in 1..n }

Trees == UNION { TreesOf(s) : s \in 1..MaxSize } \ {Sym}

\* ce.box(tree): every node becomes a non-canonical BoxedFunction without
\* definition, operands first
RECURSIVE box(_, _)
RECURSIVE boxOps(_, _)
box(h, t) ==
  IF t = Sym THEN [h |-> h, r |-> XId]
  ELSE LET o == boxOps(h, t.ops)
           hd == IF t.hx = << >> THEN [h |-> o.h, r |-> Undefined] ELSE box(o.h, t.hx[1])
           h1 == BoxedFunction(hd.h, t.head, hd.r, o.r, FALSE, NullDef)
       IN [h |-> h1, r |-> Len(h1)]

boxOps(h, ts) ==
  IF ts = << >> THEN [h |-> h, r |-> << >>]
  ELSE LET a == box(h, Head(ts))
           b == boxOps(a.h, Tail(ts))
       IN [h |-> b.h, r |-> << a.r >> \o b.r]

-----------------------------------------------------------------------------
(* The operations on boxed expressions *)

Objects == 1..Len(heap)
Functions == {e \in Objects : heap[e].kind = "fn"}

LoopIdle == [pc |-> "idle"]
ParserIdle == [pc |-> "idle"]

\* the last operation, its target and its result
Last(op, e, r) == [op |-> op, e |-> e, r |-> r]

Symbols == << SymbolObject("Nothing", NothingId), SymbolObject("x", XId) >>

InitEngine ==
  /\ \E t \in Trees : heap = box(Symbols, t).h
  /\ context = << LibraryScope >>
  /\ last = Last("box", Undefined, Undefined)

Run(op, e, res) ==
  /\ Len(res.h) <= MaxHeap
  /\ Len(res.ctx) <= MaxScopes
  /\ heap' = res.h
  /\ context' = res.ctx
  /\ last' = Last(op, e, res.r)
  /\ UNCHANGED <<loop, parser>>

ReadCanonical(e) == Run("canonical", e, canonical(heap, context, e))
Simplify(e) == Run("simplify", e, apply(heap, context, e, "simplify"))
Evaluate(e) == Run("evaluate", e, apply(heap, context, e, "evaluate"))
N(e) == Run("N", e, apply(heap, context, e, "N"))

\* BoxedFunction.unbind
unbind(h, e) == [h EXCEPT ![e].value = Undefined, ![e].numericValue = Undefined]

Unbind(e) ==
  /\ heap' = unbind(heap, e)
  /\ last' = Last("unbind", e, Undefined)
  /\ UNCHANGED <<context, loop, parser>>

Init ==
  /\ InitEngine
  /\ loop = LoopIdle
  /\ parser = ParserIdle

Next ==
  \/ \E e \in Functions : ReadCanonical(e)
  \/ \E e \in Functions : Simplify(e)
  \/ \E e \in Functions : Evaluate(e)
  \/ \E e \in Functions : N(e)

Spec == Init /\ [][Next]_vars

-----------------------------------------------------------------------------
(* Properties of the boxed expressions *)

Modes == {"simplify", "evaluate", "N"}

\* C1: for every function expression e, e.canonical.canonical is the same
\* object as e.canonical, and reading e.canonical again returns that object.
C1_CanonicalIdempotent ==
  \A e \in Functions :
    LET a == canonical(heap, context, e)
        b == canonical(a.h, a.ctx, a.r)
        c == canonical(b.h, b.ctx, e)
    IN b.r = a.r /\ c.r = a.r

\* a canonical form that is another object than the expression has been read
C1_Witness ==
  /\ last.op = "canonical"
  /\ last.r # last.e
  /\ heap[last.e].canonical = last.r
  /\ heap[last.r].kind = "fn"

\* an Error marker occurs in the subtree of e (head or operands, any depth)
RECURSIVE hasError(_, _)
hasError(h, e) ==
  /\ h[e].kind = "fn"
  /\ \/ h[e].headExpr = Undefined /\ h[e].head = "Error"
     \/ h[e].headExpr # Undefined /\ hasError(h, h[e].headExpr)
     \/ \E i \in 1..Len(h[e].ops) : hasError(h, h[e].ops[i])

\* C2: isValid is true iff no Error marker occurs anywhere in the subtree
\* and, when the node is canonical, its head resolves to a definition.
C2_ValidIffNoError ==
  \A e \in Functions :
    isValid(heap, e) <=>
      /\ ~hasError(heap, e)
      /\ isCanonical(heap, e) => functionDefinition(heap, e) # UndefinedDef

\* C3: simplify, evaluate and N of an invalid function expression return
\* that expression, invoke no handler, and leave the scope stack and every
\* object (cached canonical forms and values included) as they were.
C3_InvalidIsIdentity ==
  \A e \in Functions : \A m \in Modes :
    ~isValid(heap, e) =>
      apply(heap, context, e, m) = [h |-> heap, ctx |-> context, n |-> 0, r |-> e]

\* simplify, evaluate or N has just been called on an invalid expression
C3_Witness ==
  /\ last.op \in Modes
  /\ ~isValid(heap, last.e)
  /\ last.r = last.e

-----------------------------------------------------------------------------
(* The internal operations: the constructor with its options and the       *)
(* isCanonical setter                                                      *)

InternalHeads == {"Negate", "g"}

OptionsOf(head) ==
  { [canonical |-> c, def |-> d] :
      c \in BOOLEAN, d \in {NullDef} \cup ({head} \cap LibraryNames) }

UnaryOps(S) == { << >> } \cup { << o >> : o \in S }

\* new BoxedFunction(ce, head, ops, {canonical, def})
NewBoxedFunction(head, ops, options) ==
  /\ Len(heap) < Len(Symbols) + MaxBuilt
  /\ heap' = BoxedFunction(heap, head, Undefined, ops, options.canonical, options.def)
  /\ last' = Last("new", Len(heap) + 1, Len(heap) + 1)
  /\ UNCHANGED <<context, loop, parser>>

\* set isCanonical(val)
SetIsCanonical(e, val) ==
  /\ heap' = [heap EXCEPT ![e].canonical = IF val THEN e ELSE Undefined]
  /\ last' = Last("isCanonical", e, Undefined)
  /\ UNCHANGED <<context, loop, parser>>

\* the objects built by the caller and their canonical forms share this room
InternalHeap == Len(Symbols) + MaxBuilt

InitInternal ==
  /\ heap = Symbols
  /\ context = << LibraryScope >>
  /\ last = Last("box", Undefined, Undefined)
  /\ loop = LoopIdle
  /\ parser = ParserIdle

NextInternal ==
  \/ \E head \in InternalHeads, ops \in UnaryOps(Objects) :
       \E options \in OptionsOf(head) : NewBoxedFunction(head, ops, options)
  \/ \E e \in Functions, val \in BOOLEAN : SetIsCanonical(e, val)
  \/ \E e \in Functions : ReadCanonical(e) /\ Len(heap') <= InternalHeap
  \/ \E e \in Functions : Unbind(e)

SpecInternal == InitInternal /\ [][NextInternal]_vars

\* C6: whatever the sequence of constructions, reads of canonical,
\* assignments of isCanonical and unbinds, an expression whose isCanonical is
\* false reports functionDefinition as undefined.
C6_NonCanonicalNeverBound ==
  \A e \in Functions :
    ~isCanonical(heap, e) => functionDefinition(heap, e) = UndefinedDef

\* a non-canonical expression holds a definition in _def: one built with a
\* definition, or one whose canonical flag was taken away
C6_Witness ==
  \E e \in Functions :
    /\ ~isCanonical(heap, e)
    /\ heap[e].def \in LibraryNames
    /\ functionDefinition(heap, e) = UndefinedDef

\* C11: canonical status changes only from non-canonical to canonical: in
\* every step of any operation on the expressions, an expression whose
\* isCanonical is true keeps it true, and a cached canonical form is never
\* cleared.
C11_CanonicalForever ==
  [][\A e \in Functions :
       /\ isCanonical(heap, e) => isCanonical(heap', e)
       /\ heap[e].canonical # Undefined => heap'[e].canonical # Undefined]_vars

\* C12: a canonical function expression whose head (a name) has a function
\* definition reachable from the current scope reports that definition as
\* its functionDefinition, also when it was created without a definition
\* (_def null: not fetched yet).
C12_LazyDefinition ==
  \A e \in Functions :
    (/\ isCanonical(heap, e)
     /\ heap[e].headExpr = Undefined
     /\ lookupFunction(heap[e].head, context) # UndefinedDef)
      => functionDefinition(heap, e) = lookupFunction(heap[e].head, context)

-----------------------------------------------------------------------------
(* Scopes that come and go between the operations on an expression         *)

\* the functions of a symbol table handed to ce.pushScope
ScopeNames == {"Sqrt"}

\* ce.pushScope({symbolTable})
PushScope ==
  /\ Len(context) < MaxScopes
  /\ context' = Append(context, ScopeNames)
  /\ last' = Last("pushScope", Undefined, Undefined)
  /\ UNCHANGED <<heap, loop, parser>>

\* ce.popScope(), the scope of the engine's library stays
PopScope ==
  /\ Len(context) > 1
  /\ context' = popScope(context)
  /\ last' = Last("popScope", Undefined, Undefined)
  /\ UNCHANGED <<heap, loop, parser>>

\* an engine whose library does not define the functions of ScopeNames
InitScopes ==
  /\ \E t \in Trees : heap = box(Symbols, t).h
  /\ context = << LibraryScope \ ScopeNames >>
  /\ last = Last("box", Undefined, Undefined)
  /\ loop = LoopIdle
  /\ parser = ParserIdle

NextScopes ==
  \/ PushScope
  \/ PopScope
  \/ \E e \in Functions : ReadCanonical(e)
  \/ \E e \in Functions : Simplify(e)
  \/ \E e \in Functions : Evaluate(e)

SpecScopes == InitScopes /\ [][NextScopes]_vars

RECURSIVE clone(_, _)
RECURSIVE cloneOps(_, _)
\* ce.box(e.json, {canonical: false}): a structurally identical expression
\* made of new objects
clone(h, e) ==
  IF h[e].kind = "sym" THEN [h |-> h, r |-> e]
  ELSE LET o == cloneOps(h, h[e].ops)
           hd == IF h[e].headExpr = Undefined THEN [h |-> o.h, r |-> Undefined]
                 ELSE clone(o.h, h[e].headExpr)
       IN [h |-> BoxedFunction(hd.h, h[e].head, hd.r, o.r, FALSE, NullDef),
           r |-> Len(hd.h) + 1]

cloneOps(h, ops) ==
  IF ops = << >> THEN [h |-> h, r |-> << >>]
  ELSE LET a == clone(h, Head(ops))
           b == cloneOps(a.h, Tail(ops))
       IN [h |-> b.h, r |-> << a.r >> \o b.r]

RECURSIVE sameForm(_, _, _)
\* a and b are the same tree, bound to the same definitions
sameForm(h, a, b) ==
  /\ h[a].kind = h[b].kind
  /\ h[a].head = h[b].head
  /\ h[a].def = h[b].def
  /\ (h[a].headExpr = Undefined) = (h[b].headExpr = Undefined)
  /\ h[a].headExpr # Undefined => sameForm(h, h[a].headExpr, h[b].headExpr)
  /\ Len(h[a].ops) = Len(h[b].ops)
  /\ \A i \in 1..Len(h[a].ops) : sameForm(h, h[a].ops[i], h[b].ops[i])

\* C13: canonical is deterministic: a non-canonical expression whose
\* canonical form was read earlier, whatever the scope stack was then, gives
\* under the current scope stack the same canonical form as a structurally
\* identical expression whose canonical form is read now for the first time.
C13_Deterministic ==
  \A e \in Functions :
    (~isCanonical(heap, e) /\ heap[e].canonical # Undefined) =>
      LET first == canonical(heap, context, e)
          copy == clone(heap, e)
          fresh == canonical(copy.h, context, copy.r)
      IN sameForm(fresh.h, first.r, fresh.r)

-----------------------------------------------------------------------------
(* The end of BoxedFunction.N: the result of the N handler and the numeric *)
(* mode                                                                    *)

NumericModes == {"machine", "bignum", "complex", "auto"}

\* a machine number, and the machine number NaN
Machine(v) == [kind |-> "machine", re |-> v, im |-> 0, excess |-> 0]
NaN == [kind |-> "NaN", re |-> 0, im |-> 0, excess |-> 0]
\* a bignum: v with the precision of a machine number, and the digits
\* beyond that precision
Bignum(v, excess) == [kind |-> "bignum", re |-> v, im |-> 0, excess |-> excess]
Complex(re, im) == [kind |-> "complex", re |-> re, im |-> im, excess |-> 0]
\* a result that is not a literal
Symbolic == [kind |-> "fn", re |-> 0, im |-> 0, excess |-> 0]

HandlerResults ==
  {NaN, Symbolic}
    \cup { Machine(v) : v \in 0..MaxNumber }
    \cup { Bignum(v, x) : v \in 0..MaxNumber, x \in {0, 1} }
    \cup { Complex(re, im) : re \in 0..MaxNumber, im \in 1..MaxNumber }

isLiteral(result) == result.kind \in {"machine", "NaN", "bignum", "complex"}

\* complexAllowed(ce): the numeric mode is "complex" or "auto"
complexAllowed(numericMode) == numericMode \in {"complex", "auto"}

\* preferBignum(ce): the numeric mode is "bignum" or "auto"
preferBignum(numericMode) == numericMode \in {"bignum", "auto"}

\* Decimal.toNumber(): the digits beyond the machine precision are lost
toNumber(result) == Machine(result.re)

\* the end of N without the conversion of a bignum
downConvertComplexOnly(numericMode, result) ==
  IF isLiteral(result) /\ ~complexAllowed(numericMode) /\ result.kind = "complex"
  THEN NaN ELSE result

\* if (result.isLiteral) { ... } return result
downConvert(numericMode, result) ==
  IF isLiteral(result) /\ ~complexAllowed(numericMode) /\ result.kind = "complex"
  THEN NaN
  ELSE IF isLiteral(result) /\ ~preferBignum(numericMode) /\ result.kind = "bignum"
  THEN toNumber(result)
  ELSE result

\* step 5/ of N on an expression whose N handler returns result
NumericN(numericMode, result) ==
  /\ last' = Last("N", [numericMode |-> numericMode, result |-> result],
                  downConvert(numericMode, result))
  /\ UNCHANGED <<heap, context, loop, parser>>

InitNumeric ==
  /\ heap = Symbols
  /\ context = << LibraryScope >>
  /\ last = Last("box", Undefined, Undefined)
  /\ loop = LoopIdle
  /\ parser = ParserIdle

NextNumeric ==
  \E numericMode \in NumericModes, result \in HandlerResults :
    NumericN(numericMode, result)

SpecNumeric == InitNumeric /\ [][NextNumeric]_vars

\* C14 as stated: when the numeric mode forbids complex results and the
\* computed literal is complex, N returns the literal with its complex part
\* discarded, i.e. its real part.
C14_DiscardComplex ==
  (/\ last.op = "N"
   /\ ~complexAllowed(last.e.numericMode)
   /\ last.e.result.kind = "complex")
    => last.r = Machine(last.e.result.re)

\* C14 amended: when the mode forbids complex results and the computed
\* literal is complex, N returns NaN; when the mode forbids bignums and the
\* literal is a bignum, N returns the machine number it converts to; in
\* every other case N returns the computed result; the result is never an
\* error.
C14_DownConvert ==
  last.op = "N" =>
    LET numericMode == last.e.numericMode
        result == last.e.result
    IN /\ last.r.kind # "error"
       /\ IF ~complexAllowed(numericMode) /\ result.kind = "complex"
          THEN last.r = NaN
          ELSE IF ~preferBignum(numericMode) /\ result.kind = "bignum"
          THEN last.r = Machine(result.re)
          ELSE last.r = result

\* N has converted a bignum with digits beyond the machine precision
C14_Witness ==
  /\ last.op = "N"
  /\ last.e.numericMode = "machine"
  /\ last.e.result.kind = "bignum"
  /\ last.e.result.excess = 1
  /\ last.r.kind = "machine"

-----------------------------------------------------------------------------
(* BoxedFunction.match: a pattern and a target, both built with ce._fn     *)

YId == XId + 1             \* the free variable y
WildcardAId == YId + 1     \* the wildcard _a
WildcardBId == WildcardAId + 1   \* the wildcard _b

PatternSymbols ==
  << SymbolObject("Nothing", NothingId), SymbolObject("x", XId),
     SymbolObject("y", YId), SymbolObject("_a", WildcardAId),
     SymbolObject("_b", WildcardBId) >>

PatternHeads == {"g", "Negate"}

\* the sequences of at most n elements of s
RECURSIVE SeqsUpTo(_, _)
SeqsUpTo(s, n) ==
  IF n = 0 THEN { << >> }
  ELSE SeqsUpTo(s, n - 1)
         \cup { Append(q, x) : q \in { q \in SeqsUpTo(s, n - 1) : Len(q) = n - 1 }, x \in s }

\* null, and a Substitution: the set of its <<wildcard, expression>> props
NoMatch == [match |-> FALSE, props |-> {}]
Substitution(props) == [match |-> TRUE, props |-> props]

\* { ...result, ...m }
spread(result, m) ==
  Substitution({ a \in result.props : \A b \in m.props : b[1] # a[1] } \cup m.props)

\* the match of a symbol: a wildcard matches one expression and binds it,
\* another symbol matches the same symbol only
symbolMatch(h, p, t) ==
  IF t = Undefined THEN NoMatch
  ELSE IF h[p].head \in {"_a", "_b"} THEN Substitution({ << h[p].head, t >> })
  ELSE IF h[t].kind = "sym" /\ h[t].head = h[p].head THEN Substitution({})
  ELSE NoMatch

RECURSIVE match(_, _, _)
RECURSIVE matchTail(_, _, _, _, _)
RECURSIVE matchNext(_, _, _, _, _, _)

\* the loop of match from operand i on
matchTail(h, lhsTail, rhsTail, i, result) ==
  IF i > Len(lhsTail) THEN result
  ELSE matchNext(h, lhsTail, rhsTail, i, result,
                 match(h, lhsTail[i],
                       IF i <= Len(rhsTail) THEN rhsTail[i] ELSE Undefined))

\* one turn of the loop, m the match of operand i
matchNext(h, lhsTail, rhsTail, i, result, m) ==
  IF ~m.match THEN NoMatch
  ELSE matchTail(h, lhsTail, rhsTail, i + 1, spread(result, m))

\* the match of the operands after the match m of a head that is an
\* expression
matchHead(h, p, t, m) ==
  IF ~m.match THEN NoMatch
  ELSE matchTail(h, h[p].ops, h[t].ops, 1, m)

match(h, p, t) ==
  IF h[p].kind = "sym" THEN symbolMatch(h, p, t)
  ELSE IF t = Undefined THEN NoMatch
  ELSE IF h[t].kind # "fn" THEN NoMatch
  ELSE IF h[p].headExpr = Undefined THEN
    IF h[t].headExpr # Undefined \/ h[p].head # h[t].head THEN NoMatch
    ELSE matchTail(h, h[p].ops, h[t].ops, 1, Substitution({}))
  ELSE IF h[t].headExpr = Undefined THEN NoMatch
  ELSE matchHead(h, p, t, match(h, h[p].headExpr, h[t].headExpr))

\* pattern.match(target), for the pattern and the target built last
Match ==
  /\ last.op = "box"
  /\ last' = Last("match", << last.e, last.r >>, match(heap, last.e, last.r))
  /\ UNCHANGED <<heap, context, loop, parser>>

\* ce._fn(head, ops) four times: an operand of the pattern, an operand of
\* the target, the pattern, and the target unless the target is a symbol
InitMatch ==
  /\ \E s \in {XId, YId, WildcardAId, WildcardBId}, u \in {XId, YId},
        hp \in PatternHeads, ht \in PatternHeads :
       LET h1 == BoxedFunction(PatternSymbols, "g", Undefined, << s >>, FALSE, NullDef)
           h2 == BoxedFunction(h1, "g", Undefined, << u >>, FALSE, NullDef)
           ip == Len(h1)
           it == Len(h2)
       IN \E pops \in SeqsUpTo({XId, YId, WildcardAId, WildcardBId, ip}, MaxArity),
             tops \in SeqsUpTo({XId, YId, it}, MaxArity),
             symbolic \in BOOLEAN :
            LET h3 == BoxedFunction(h2, hp, Undefined, pops, FALSE, NullDef)
                h4 == BoxedFunction(h3, ht, Undefined, tops, FALSE, NullDef)
            IN IF symbolic
               THEN /\ tops = << >>
                    /\ heap = h3
                    /\ last = Last("box", Len(h3), IF ht = "g" THEN XId ELSE YId)
               ELSE /\ heap = h4
                    /\ last = Last("box", Len(h3), Len(h4))
  /\ context = << LibraryScope >>
  /\ loop = LoopIdle
  /\ parser = ParserIdle

NextMatch == Match

SpecMatch == InitMatch /\ [][NextMatch]_vars

\* C15: match returns null when the target is not a function, when the
\* heads differ or when the operand counts differ; it returns a
\* substitution only when every operand of the pattern matched the operand
\* of the target at the same position; null carries no binding.
C15_MatchOrNull ==
  last.op = "match" =>
    LET p == last.e[1]
        t == last.e[2]
    IN /\ heap[t].kind # "fn" => last.r = NoMatch
       /\ (heap[t].kind = "fn" /\ heap[p].head # heap[t].head) => last.r = NoMatch
       /\ (heap[t].kind = "fn" /\ Len(heap[p].ops) # Len(heap[t].ops))
            => last.r = NoMatch
       /\ last.r.match =>
            \A i \in 1..Len(heap[p].ops) :
              /\ i <= Len(heap[t].ops)
              /\ match(heap, heap[p].ops[i], heap[t].ops[i]).match
       /\ ~last.r.match => last.r.props = {}

-----------------------------------------------------------------------------
(* BoxedFunction.sgn of a canonical Negate, Multiply, Add or Divide, as a  *)
(* function of the sgn of its operands                                     *)

\* -1 | 0 | 1 | undefined | null
Signs == {"-1", "0", "+1", "undefined", "null"}
SgnHeads == {"Negate", "Multiply", "Add", "Divide"}

known(s) == s \in {"-1", "0", "+1"}
number(s) == IF s = "-1" THEN -1 ELSE IF s = "0" THEN 0 ELSE 1

\* a number that may be NaN
Num(v) == [nan |-> FALSE, v |-> v]
NotANumber == [nan |-> TRUE, v |-> 0]

\* acc * (x.sgn ?? NaN)
times(acc, s) ==
  IF acc.nan \/ ~known(s) THEN NotANumber ELSE Num(acc.v * number(s))

\* this._ops.reduce((acc, x) => acc * (x.sgn ?? NaN), 1)
RECURSIVE reduce(_, _)
reduce(ops, acc) ==
  IF ops = << >> THEN acc ELSE reduce(Tail(ops), times(acc, Head(ops)))

\* the operands counted by the loop of the Add branch, which breaks at the
\* first operand of unknown sign
RECURSIVE countUntilBreak(_, _)
countUntilBreak(ops, s) ==
  IF ops = << >> \/ ~known(Head(ops)) THEN 0
  ELSE (IF Head(ops) = s THEN 1 ELSE 0) + countUntilBreak(Tail(ops), s)

\* ops[i]?.sgn
sgnAt(ops, i) == IF i <= Len(ops) THEN ops[i] ELSE "undefined"

\* the Multiply branch, total the product
sgnOfTotal(total) ==
  IF total.nan THEN "null"
  ELSE IF total.v > 0 THEN "+1"
  ELSE IF total.v < 0 THEN "-1"
  ELSE "0"

sgnMultiply(ops) == sgnOfTotal(reduce(ops, Num(1)))

sgn(head, ops) ==
  IF head = "Negate" THEN
    IF sgnAt(ops, 1) = "undefined" THEN "undefined"
    ELSE IF sgnAt(ops, 1) = "null" THEN "null"
    ELSE IF sgnAt(ops, 1) = "0" THEN "0"
    ELSE IF sgnAt(ops, 1) = "+1" THEN "-1" ELSE "+1"
  ELSE IF head = "Multiply" THEN sgnMultiply(ops)
  ELSE IF head = "Add" THEN
    IF countUntilBreak(ops, "0") = Len(ops) THEN "0"
    ELSE IF countUntilBreak(ops, "+1") = Len(ops) THEN "+1"
    ELSE IF countUntilBreak(ops, "-1") = Len(ops) THEN "-1"
    ELSE "null"
  ELSE \* Divide
    IF ~known(sgnAt(ops, 1)) \/ ~known(sgnAt(ops, 2)) THEN "null"
    ELSE IF sgnAt(ops, 1) = "0" THEN "0"
    ELSE IF sgnAt(ops, 1) = sgnAt(ops, 2) THEN "+1"
    ELSE "-1"

\* e.sgn, for the canonical expression built last
Sgn ==
  /\ last.op = "box"
  /\ last' = Last("sgn", last.e, sgn(last.e.head, last.e.ops))
  /\ UNCHANGED <<heap, context, loop, parser>>

\* a canonical expression of each head, over operands of each sgn
InitSgn ==
  /\ \E head \in SgnHeads, ops \in SeqsUpTo(Signs, MaxArity) :
       last = Last("box", [head |-> head, ops |-> ops], Undefined)
  /\ heap = Symbols
  /\ context = << LibraryScope >>
  /\ loop = LoopIdle
  /\ parser = ParserIdle

NextSgn == Sgn

SpecSgn == InitSgn /\ [][NextSgn]_vars

\* C16: the sgn of a canonical Multiply is the sign of the product of the
\* signs of its operands when all are known; it is undefined when the sign
\* of some operand is undefined (and of none is null); it is null only when
\* the sign of some operand is null.
C16_MultiplySgn ==
  (last.op = "sgn" /\ last.e.head = "Multiply") =>
    LET ops == last.e.ops
        I == 1..Len(ops)
    IN /\ (\A i \in I : known(ops[i]))
            => last.r = sgnOfTotal(reduce(ops, Num(1))) /\ known(last.r)
       /\ ((\E i \in I : ops[i] = "undefined") /\ (\A i \in I : ops[i] # "null"))
            => last.r = "undefined"
       /\ last.r = "null" => \E i \in I : ops[i] = "null"

-----------------------------------------------------------------------------
(* holdMap under each hold policy                                          *)

HoldPolicies == {"none", "all", "first", "rest", "last", "most"}
OperandHeads == {"g", "Negate", "Hold", "ReleaseHold"}

\* ce._fn(head, [x]) for each head of heads; r the operands built
RECURSIVE fnEach(_, _)
fnEach(h, heads) ==
  IF heads = << >> THEN [h |-> h, r |-> << >>]
  ELSE LET rest == fnEach(BoxedFunction(h, Head(heads), Undefined, << XId >>,
                                        FALSE, NullDef),
                          Tail(heads))
       IN [h |-> rest.h, r |-> << Len(h) + 1 >> \o rest.r]

\* holdMap('', xs, skip, false, (x) => x.evaluate()), xs the operands built
\* last
HoldMap(skip) ==
  /\ last.op = "box"
  /\ LET res == holdMap(heap, context, "", last.e, skip, FALSE, "evaluate")
     IN /\ heap' = res.h
        /\ context' = res.ctx
        /\ last' = Last("holdMap", [xs |-> last.e, skip |-> skip], res.r)
  /\ UNCHANGED <<loop, parser>>

InitHold ==
  /\ \E heads \in SeqsUpTo(OperandHeads, MaxArity) :
       LET ops == fnEach(Symbols, heads)
       IN /\ heap = ops.h
          /\ last = Last("box", ops.r, Undefined)
  /\ context = << LibraryScope >>
  /\ loop = LoopIdle
  /\ parser = ParserIdle

NextHold == \E skip \in HoldPolicies : HoldMap(skip)

SpecHold == InitHold /\ [][NextHold]_vars

\* C17: over operands that are neither Hold nor ReleaseHold, holdMap
\* applies f to every operand under 'none', to none under 'all', to all but
\* the first under 'first', to the first only under 'rest', to all but the
\* last under 'last' and to all but the last under 'most'; the other
\* operands are passed unchanged.  (f(x) is never x for these operands.)
C17_HoldPositions ==
  (/\ last.op = "holdMap"
   /\ \A i \in 1..Len(last.e.xs) :
        heap[last.e.xs[i]].head \notin {"Hold", "ReleaseHold"})
    => LET xs == last.e.xs
           skip == last.e.skip
           n == Len(xs)
           unheld(i) == CASE skip = "none" -> TRUE
                          [] skip = "all" -> FALSE
                          [] skip = "first" -> i # 1
                          [] skip = "rest" -> i = 1
                          [] skip = "last" -> i # n
                          [] skip = "most" -> i # n
       IN /\ Len(last.r) = n
          /\ \A i \in 1..n : unheld(i) <=> last.r[i] # xs[i]

-----------------------------------------------------------------------------
(* lambda: a template over the wildcards and its arguments                 *)

\* the symbols of the templates and of the arguments
LambdaNames == << "Nothing", "x", "y", "_", "__", "_#", "_1", "_2" >>
LambdaSymbols == [i \in 1..Len(LambdaNames) |-> SymbolObject(LambdaNames[i], i)]
TemplateOperands == { i \in 1..Len(LambdaNames) : i # NothingId }

\* lambda(ce, fn, args), for the template and the arguments boxed last
Lambda ==
  /\ last.op = "box"
  /\ LET res == lambda(heap, context, last.e, last.r)
     IN /\ heap' = res.h
        /\ context' = res.ctx
        /\ last' = Last("lambda", [fn |-> last.e, args |-> last.r], res.r)
  /\ UNCHANGED <<loop, parser>>

\* a template ce._fn('g', ops) and the arguments
InitLambda ==
  /\ \E ops \in SeqsUpTo(TemplateOperands, MaxArity),
        args \in SeqsUpTo({XId, YId}, MaxArity) :
       /\ heap = BoxedFunction(LambdaSymbols, "g", Undefined, ops, FALSE, NullDef)
       /\ last = Last("box", Len(LambdaSymbols) + 1, args)
  /\ context = << LibraryScope >>
  /\ loop = LoopIdle
  /\ parser = ParserIdle

NextLambda == Lambda

SpecLambda == InitLambda /\ [][NextLambda]_vars

\* C18: lambda(fn, args) with n arguments returns the template with _k
\* replaced by the k-th argument for 1 <= k <= n, _ by the first argument,
\* __ by the tuple of all the arguments and _# by the number n, and with
\* every other symbol in place.
C18_LambdaSubstitutes ==
  last.op = "lambda" =>
    LET f == last.e.fn
        args == last.e.args
        n == Len(args)
        r == last.r
    IN /\ heap[r].kind = "fn"
       /\ heap[r].head = heap[f].head
       /\ Len(heap[r].ops) = Len(heap[f].ops)
       /\ \A i \in 1..Len(heap[f].ops) :
            LET name == heap[heap[f].ops[i]].head
                y == heap[r].ops[i]
            IN IF \E k \in 1..n : PositionalNames[k] = name
               THEN \E k \in 1..n : PositionalNames[k] = name /\ y = args[k]
               ELSE IF name = "_" /\ n >= 1 THEN y = args[1]
               ELSE IF name = "__"
               THEN /\ heap[y].kind = "fn"
                    /\ heap[y].head = "Tuple"
                    /\ heap[y].ops = args
               ELSE IF name = "_#"
               THEN heap[y].head = "Number" /\ heap[y].numericValue = n
               ELSE y = heap[f].ops[i]

\* a template with _2 and __ was given two different arguments
C18_Witness ==
  /\ last.op = "lambda"
  /\ Len(last.e.args) = 2
  /\ last.e.args[1] # last.e.args[2]
  /\ \E i \in 1..Len(heap[last.e.fn].ops) : heap[heap[last.e.fn].ops[i]].head = "_2"
  /\ \E i \in 1..Len(heap[last.e.fn].ops) : heap[heap[last.e.fn].ops[i]].head = "__"
  /\ \E i \in 1..Len(heap[last.r].ops) : heap[heap[last.r].ops[i]].head = "Tuple"

-----------------------------------------------------------------------------
(* Canonical forms of nested calls of Add, an associative function         *)

\* the trees with k nodes Add over the symbol x, and the lists of m
\* operands with k nodes Add in all
RECURSIVE AddTreesOf(_)
RECURSIVE AddOpsOf(_, _)
AddTreesOf(k) ==
  IF k = 0 THEN {Sym}
  ELSE { Node([head |-> "Add", hx |-> << >>], ops) :
           ops \in UNION { AddOpsOf(k - 1, m) : m \in 0..MaxArity } }

AddOpsOf(k, m) ==
  IF m = 0 THEN (IF k = 0 THEN { << >> } ELSE {})
  ELSE UNION { { << t >> \o rest : t \in AddTreesOf(j), rest \in AddOpsOf(k - j, m - 1) }
               : j \in 0..k }

AddTrees == UNION { AddTreesOf(k) : k \in 1..MaxNesting }

\* room for the nodes of an expression and their canonical forms
AssociativeHeap == Len(Symbols) + 2 * MaxNesting

\* e.canonical
CanonicalOf(e) ==
  LET res == canonical(heap, context, e)
  IN /\ Len(res.h) <= AssociativeHeap
     /\ heap' = res.h
     /\ context' = res.ctx
     /\ last' = Last("canonical", e, res.r)
     /\ UNCHANGED <<loop, parser>>

InitAssociative ==
  /\ \E t \in AddTrees : heap = box(Symbols, t).h
  /\ context = << LibraryScope >>
  /\ last = Last("box", Undefined, Undefined)
  /\ loop = LoopIdle
  /\ parser = ParserIdle

NextAssociative == \E e \in Functions : CanonicalOf(e)

SpecAssociative == InitAssociative /\ [][NextAssociative]_vars

\* some operand of e has the head of e
nested(h, e) == \E i \in 1..Len(h[e].ops) : sameHead(h, h[e].ops[i], h[e].head)

\* C19: no operand of a canonical expression whose head is an associative
\* function has the head of the expression.
C19_AssociativeFlat ==
  \A e \in Functions :
    (/\ isCanonical(heap, e)
     /\ functionDefinition(heap, e) # UndefinedDef
     /\ FunctionDefs[functionDefinition(heap, e)].associative)
      => ~nested(heap, e)

\* the canonical form of an Add with an Add nested in an Add was read, and
\* holds more operands than the expression
C19_Witness ==
  /\ last.op = "canonical"
  /\ \E i \in 1..Len(heap[last.e].ops) :
       /\ sameHead(heap, heap[last.e].ops[i], "Add")
       /\ nested(heap, heap[last.e].ops[i])
  /\ functionDefinition(heap, last.r) = "Add"
  /\ Len(heap[last.r].ops) > Len(heap[last.e].ops)

-----------------------------------------------------------------------------
(* Canonical forms of functions whose operands may not fit the signature   *)

SignatureHeads == {"Negate", "Divide", "Log"}

\* the canonical form of the operand x of an expression read already
canonicalOperand(h, x) == IF h[x].kind = "fn" THEN h[x].canonical ELSE x

\* the marker ce.error(code, where) at r
isError(h, r, code, where) ==
  /\ h[r].kind = "fn"
  /\ h[r].head = "Error"
  /\ h[r].code = code
  /\ h[r].ops = where

\* e.canonical, for the expression built last
CanonicalOfLast ==
  /\ last.op = "box"
  /\ LET res == canonical(heap, context, last.e)
     IN /\ heap' = res.h
        /\ context' = res.ctx
        /\ last' = Last("canonical", last.e, res.r)
  /\ UNCHANGED <<loop, parser>>

\* ce._fn('Negate', [x]), then ce._fn(head, ops) over x, Nothing and that
\* Negate(x), neither canonical
InitSignature ==
  /\ \E head \in SignatureHeads :
       LET h1 == BoxedFunction(Symbols, "Negate", Undefined, << XId >>, FALSE, NullDef)
       IN \E ops \in SeqsUpTo({NothingId, XId, Len(h1)}, MaxArity + 1) :
            /\ heap = BoxedFunction(h1, head, Undefined, ops, FALSE, NullDef)
            /\ last = Last("box", Len(h1) + 1, Undefined)
  /\ context = << LibraryScope >>
  /\ loop = LoopIdle
  /\ parser = ParserIdle

NextSignature == CanonicalOfLast

SpecSignature == InitSignature /\ [][NextSignature]_vars

\* the canonical operands of the expression read last, what its signature
\* expects, and whether they fit
OperandsRead == [i \in 1..Len(heap[last.e].ops) |-> canonicalOperand(heap, heap[last.e].ops[i])]
ExpectedArgs == FunctionDefs[heap[last.e].head].args
Misfit ==
  /\ last.op = "canonical"
  /\ ~signatureCompatible(ExpectedArgs,
                          [i \in 1..Len(OperandsRead) |-> domain(heap, OperandsRead[i])])

\* what validateSignature leaves at a position i that has an operand
markedAt(i) ==
  LET y == heap[last.r].ops[i]
      x == OperandsRead[i]
  IN IF i > Len(ExpectedArgs) THEN isError(heap, y, "unexpected-argument", << x >>)
     ELSE IF isCompatible(domain(heap, x), ExpectedArgs[i].dom) THEN y = x
     ELSE isError(heap, y, "incompatible-domain", << x >>)

\* what validateSignature leaves at a position i that has no operand
missingAt(i) ==
  LET y == heap[last.r].ops[i]
  IN IF ExpectedArgs[i].ctor = "Maybe" THEN y = NothingId
     ELSE isError(heap, y, "missing", << >>)

\* C20 as stated: when the operands do not fit the signature, the canonical
\* form holds, at every position of an operand, the operand (compatible) or
\* the error wrapping it (unexpected-argument beyond the expected count,
\* incompatible-domain otherwise) and, at every position of an absent
\* operand, a 'missing' error (Nothing for a Maybe); it is not valid.
C20_EveryAbsentMarked ==
  Misfit =>
    LET n == Len(OperandsRead)
        m == Len(ExpectedArgs)
    IN /\ heap[last.r].kind = "fn" /\ heap[last.r].head = heap[last.e].head
       /\ ~isValid(heap, last.r)
       /\ Len(heap[last.r].ops) = (IF n > m THEN n ELSE m)
       /\ \A i \in 1..n : markedAt(i)
       /\ \A i \in (n + 1)..m : missingAt(i)

-----------------------------------------------------------------------------
(* LatexSyntax.parse                                                       *)
(*                                                                         *)
(* The token stream is a sequence of opaque tokens.  An Expression is a    *)
(* record: a symbol, a function [head, ...args], an error marker (with the *)
(* range of tokens [from, to) it quotes) or null.  Indexes are 1-based:    *)
(* the parser is at the end when index > Len(tokens).                      *)

Tokens == {"x", "+", "*", ")", "\\q"}
Commands == {"\\q", "\\cdot", "\\times"}   \* token.length > 1 && token.startsWith('\\')

Null == [kind |-> "null", fn |-> "", args |-> << >>, from |-> 0, to |-> 0]
SymbolT(name) == [kind |-> "sym", fn |-> name, args |-> << >>, from |-> 0, to |-> 0]
FnT(head, args) == [kind |-> "fn", fn |-> head, args |-> args, from |-> 0, to |-> 0]
EmptySequence == FnT("Sequence", << >>)

\* parser.error(code, fromToken): the marker quotes the tokens from
\* fromToken up to the parser's current index
parserError(code, fromToken, index) ==
  [kind |-> "error", fn |-> code, args |-> << >>, from |-> fromToken, to |-> index]

atEnd(tokens, index) == index > Len(tokens)

Parsed(expr, index) == [expr |-> expr, index |-> index]

\* the shared helper of the associative operators: flattens, never nests
applyAssociativeOperator(op, lhs, rhs) ==
  LET l == IF lhs.kind = "fn" /\ lhs.fn = op THEN lhs.args ELSE << lhs >>
      r == IF rhs.kind = "fn" /\ rhs.fn = op THEN rhs.args ELSE << rhs >>
  IN FnT(op, l \o r)

\* the infix entries of the dictionary, by trigger; name "" is an entry
\* without a name
InfixDefinitions ==
  [t \in {"+", "*", "\\cdot", "\\times"} |->
     IF t = "+" THEN [trigger |-> "+", name |-> "Add", precedence |-> 275]
     ELSE IF t = "\\times" THEN [trigger |-> t, name |-> "Multiply", precedence |-> 390]
     ELSE [trigger |-> t, name |-> "", precedence |-> 390]]

\* parser.peekDefinitions('infix'): the entries triggered at the current
\* token (one token each), null (here the empty sequence) when there is none
peekDefinitions(tokens, index) ==
  IF ~atEnd(tokens, index) /\ tokens[index] \in DOMAIN InfixDefinitions
  THEN << InfixDefinitions[tokens[index]] >>
  ELSE << >>

RECURSIVE matchExpression(_, _, _)
RECURSIVE matchOperators(_, _, _, _)

\* parse handler of the infix entry 'Add', trigger '+'
parseAdd(tokens, index, minPrec, lhs) ==
  IF 275 < minPrec THEN Parsed(Null, index)
  ELSE LET rhs == matchExpression(tokens, index, 275)
       IN IF rhs.expr = Null THEN Parsed(Null, rhs.index)
          ELSE Parsed(applyAssociativeOperator("Add", lhs, rhs.expr), rhs.index)

\* parse handler of the prefix entry with trigger '+'
parsePlus(tokens, index, minPrec) ==
  IF 275 < minPrec THEN Parsed(Null, index)
  ELSE matchExpression(tokens, index, 400)

\* parse handler of the infix entry with trigger '\cdot'
parseCdot(tokens, index, minPrec, lhs) ==
  IF 391 < minPrec THEN Parsed(Null, index)
  ELSE LET rhs == matchExpression(tokens, index, 392)
       IN IF rhs.expr = Null THEN Parsed(Null, rhs.index)
          ELSE Parsed(applyAssociativeOperator("Multiply", lhs, rhs.expr), rhs.index)

\* the handler the parser gives the infix entry 'Multiply', trigger
\* '\times', which has none: an associative operator of precedence 390
parseTimes(tokens, index, minPrec, lhs) ==
  IF 390 < minPrec THEN Parsed(Null, index)
  ELSE LET rhs == matchExpression(tokens, index, 390)
       IN IF rhs.expr = Null THEN Parsed(Null, rhs.index)
          ELSE Parsed(applyAssociativeOperator("Multiply", lhs, rhs.expr), rhs.index)

\* parse handler of the infix entry with trigger '*'
parseStar(tokens, index, minPrec, lhs) ==
  IF 391 < minPrec THEN Parsed(Null, index)
  ELSE LET rhs == matchExpression(tokens, index, 392)
       IN IF rhs.expr = Null THEN Parsed(Null, rhs.index)
          ELSE Parsed(FnT("Multiply", << lhs, rhs.expr >>), rhs.index)

\* def.parse(parser, until, lhs) of an infix entry
parseInfix(def, tokens, index, minPrec, lhs) ==
  IF def.trigger = "+" THEN parseAdd(tokens, index, minPrec, lhs)
  ELSE IF def.trigger = "\\cdot" THEN parseCdot(tokens, index, minPrec, lhs)
  ELSE IF def.trigger = "\\times" THEN parseTimes(tokens, index, minPrec, lhs)
  ELSE parseStar(tokens, index, minPrec, lhs)

\* a primary: a symbol, or a prefix operator and its operand; on a failure
\* the index is where it was
matchPrimary(tokens, index, minPrec) ==
  IF atEnd(tokens, index) THEN Parsed(Null, index)
  ELSE IF tokens[index] = "x" THEN Parsed(SymbolT("x"), index + 1)
  ELSE IF tokens[index] = "+"
  THEN LET r == parsePlus(tokens, index + 1, minPrec)
       IN IF r.expr = Null THEN Parsed(Null, index) ELSE r
  ELSE Parsed(Null, index)

\* an infix operator of precedence >= minPrec and its right-hand side
matchInfixOperator(tokens, lhs, index, minPrec) ==
  LET defs == peekDefinitions(tokens, index)
  IN IF defs = << >> \/ defs[1].precedence < minPrec THEN Parsed(Null, index)
     ELSE LET r == parseInfix(defs[1], tokens, index + 1, minPrec, lhs)
          IN IF r.expr = Null THEN Parsed(Null, index) ELSE r

\* the loop of matchExpression: infix operators, then juxtaposition
\* (invisible multiply, precedence 390), until neither applies
matchOperators(tokens, lhs, index, minPrec) ==
  IF atEnd(tokens, index) THEN Parsed(lhs, index)
  ELSE LET r == matchInfixOperator(tokens, lhs, index, minPrec)
           j == IF 390 < minPrec THEN Parsed(Null, index)
                ELSE matchExpression(tokens, index, 390)
       IN IF r.expr # Null THEN matchOperators(tokens, r.expr, r.index, minPrec)
          ELSE IF j.expr # Null
          THEN matchOperators(tokens,
                 applyAssociativeOperator("Multiply", lhs, j.expr), j.index, minPrec)
          ELSE Parsed(lhs, index)

\* parser.matchExpression({minPrec}): null, and the index where it was, when
\* no expression starts at the index
matchExpression(tokens, index, minPrec) ==
  LET p == matchPrimary(tokens, index, minPrec)
  IN IF p.expr = Null THEN Parsed(Null, index)
     ELSE matchOperators(tokens, p.expr, p.index, minPrec)

\* what parse leaves behind: the tree returned, the parser's index at the
\* return, the expression of the first matchExpression and the statement
\* that returned
Returned(result, index, expr, by) ==
  [result |-> result, index |-> index, expr |-> expr, by |-> by]

\* the tail of parse: expr ??= ['Sequence'] ... return expr ?? ['Sequence']
\* without its default
parseTailNoDefault(expr) == expr

parseTail(expr) == IF expr = Null THEN EmptySequence ELSE expr

\* LatexSyntax.parse(latex), on the tokens of latex
parse(tokens) ==
  LET m == matchExpression(tokens, 1, 0)
      expr == m.expr
      start == m.index
      opDefs == peekDefinitions(tokens, start)
      def == opDefs[1]
      lhs == IF expr = Null THEN parserError("missing", start, start + 1) ELSE expr
      res == parseInfix(def, tokens, start + 1, 0, lhs)
      rest == start
      token == tokens[rest]
      err == parserError(IF token \in Commands THEN "unexpected-command"
                         ELSE "unexpected-token", rest, Len(tokens) + 1)
  IN IF atEnd(tokens, start) THEN Returned(parseTail(expr), start, expr, "end")
     ELSE IF opDefs # << >> /\ res.expr # Null
     THEN Returned(res.expr, res.index, expr, "result")
     ELSE IF opDefs # << >> /\ def.name # ""
     THEN Returned(FnT(def.name,
                       << IF expr = Null
                          THEN parserError("missing", start, res.index)
                          ELSE expr,
                          parserError("missing", start, res.index) >>),
                   res.index, expr, "missing")
     ELSE Returned(parseTail(IF expr = Null THEN err
                             ELSE FnT("Sequence", << expr, err >>)),
                   Len(tokens) + 1, expr, "unexpected")

TokenStreams == UNION { [1..n -> Tokens] : n \in 0..MaxTokens }

Parse(tokens) ==
  /\ parser' = [pc |-> "done", tokens |-> tokens, ret |-> parse(tokens)]
  /\ UNCHANGED <<heap, context, last, loop>>

InitParse ==
  /\ heap = Symbols
  /\ context = << LibraryScope >>
  /\ last = Last("box", Undefined, Undefined)
  /\ loop = LoopIdle
  /\ parser = ParserIdle

NextParse == \E tokens \in TokenStreams : Parse(tokens)

SpecParse == InitParse /\ [][NextParse]_vars

RECURSIVE errorsOf(_)
\* the error markers of a tree
errorsOf(t) ==
  IF t.kind = "error" THEN {t}
  ELSE UNION { errorsOf(t.args[i]) : i \in 1..Len(t.args) }

\* C4: parse never silently discards input: when it returns with tokens it
\* did not consume, the tree has an error marker that quotes the input from
\* the first unconsumed token to the end; so a tree without an error marker
\* means that every token was consumed.
C4_NoSilentDiscard ==
  parser.pc = "done" =>
    \/ atEnd(parser.tokens, parser.ret.index)
    \/ \E err \in errorsOf(parser.ret.result) :
         /\ err.from <= parser.ret.index
         /\ err.to = Len(parser.tokens) + 1

IsUnexpected(t) ==
  t.kind = "error" /\ t.fn \in {"unexpected-token", "unexpected-command"}

\* C5 as stated: parse never returns null; the empty input yields
\* ['Sequence']; with tokens remaining after the top-level expression, a
\* parse that matched no expression yields a Sequence that wraps an error,
\* and one that matched a prefix yields ['Sequence', prefix, error].
C5_SequenceWrapped ==
  parser.pc = "done" =>
    LET ret == parser.ret
        remaining == ret.by # "end"
    IN /\ ret.result # Null
       /\ parser.tokens = << >> => ret.result = EmptySequence
       /\ remaining /\ ret.expr = Null =>
            /\ ret.result.kind = "fn" /\ ret.result.fn = "Sequence"
            /\ \E i \in 1..Len(ret.result.args) : ret.result.args[i].kind = "error"
       /\ remaining /\ ret.expr # Null =>
            /\ ret.result.kind = "fn" /\ ret.result.fn = "Sequence"
            /\ Len(ret.result.args) = 2
            /\ ret.result.args[1] = ret.expr
            /\ ret.result.args[2].kind = "error"

\* C5 amended: parse never returns null; the empty input yields
\* ['Sequence']; when tokens remain and parse ends on its unexpected-token
\* (or unexpected-command) error, a parse that matched no expression yields
\* that error marker itself, not wrapped, and one that matched a prefix
\* yields ['Sequence', prefix, error]; the error quotes the input from the
\* first unconsumed token to the end.
C5_TreeAlways ==
  parser.pc = "done" =>
    LET ret == parser.ret
    IN /\ ret.result # Null
       /\ parser.tokens = << >> => ret.result = EmptySequence
       /\ ret.by = "unexpected" /\ ret.expr = Null =>
            /\ IsUnexpected(ret.result)
            /\ ret.result.to = Len(parser.tokens) + 1
       /\ ret.by = "unexpected" /\ ret.expr # Null =>
            /\ ret.result.kind = "fn" /\ ret.result.fn = "Sequence"
            /\ Len(ret.result.args) = 2
            /\ ret.result.args[1] = ret.expr
            /\ IsUnexpected(ret.result.args[2])
            /\ ret.result.args[2].to = Len(parser.tokens) + 1

\* parse has returned the bare error marker for an input on which no
\* expression could be matched
C5_Witness ==
  /\ parser.pc = "done"
  /\ parser.ret.by = "unexpected"
  /\ parser.ret.expr = Null
  /\ parser.ret.result.kind = "error"

-----------------------------------------------------------------------------
(* Products: the multiplication variants                                   *)

\* the infix variants; "" is juxtaposition
MultiplyVariants == {"\\times", "\\cdot", "*", ""}
MultiplyTokens == {"x"} \cup (MultiplyVariants \ {""})
MultiplyStreams ==
  UNION { [1..n -> MultiplyTokens] : n \in 0..(2 * MaxFactors - 1) }

\* n factors x joined by the variant v
RECURSIVE chain(_, _)
chain(v, n) ==
  IF n = 1 THEN << "x" >>
  ELSE chain(v, n - 1) \o (IF v = "" THEN << >> ELSE << v >>) \o << "x" >>

NextMultiply == \E tokens \in MultiplyStreams : Parse(tokens)

SpecMultiply == InitParse /\ [][NextMultiply]_vars

\* C21: a chain of three or more factors joined by the same multiplication
\* variant (\times, \cdot, * or juxtaposition) parses to one flat Multiply
\* of all the factors, never to a Multiply with a Multiply operand.
C21_FlatProduct ==
  \A v \in MultiplyVariants : \A n \in 3..MaxFactors :
    (parser.pc = "done" /\ parser.tokens = chain(v, n)) =>
      /\ parser.ret.result.kind = "fn"
      /\ parser.ret.result.fn = "Multiply"
      /\ parser.ret.result.args = [i \in 1..n |-> SymbolT("x")]

-----------------------------------------------------------------------------
(* parseFraction: \frac{numer}{denom}                                      *)

NumT(v) == [kind |-> "num", fn |-> v, args |-> << >>, from |-> 0, to |-> 0]

\* head(expr), op(expr, n) and ops(expr) of the MathJSON utilities
head(expr) == IF expr.kind = "fn" THEN expr.fn ELSE ""
op(expr, n) == IF expr.kind = "fn" /\ n <= Len(expr.args) THEN expr.args[n] ELSE Null

\* the partial-derivative markers: \partial, \partial f, \partial x,
\* \partial y, \partial^2 f and \partial^2
Markers ==
  { FnT("PartialDerivative", args) :
      args \in { << >>, << SymbolT("f") >>,
                 << SymbolT("Nothing"), SymbolT("x") >>,
                 << SymbolT("Nothing"), SymbolT("y") >>,
                 << SymbolT("f"), SymbolT("Nothing"), NumT("2") >>,
                 << SymbolT("Nothing"), SymbolT("Nothing"), NumT("2") >> } }

Numerators == {SymbolT("x")} \cup Markers
Denominators ==
  Numerators
    \cup { FnT("Multiply", args) :
             args \in { q \in SeqsUpTo(Numerators, MaxFactors) : Len(q) >= 2 } }

\* the variables pushed by the loop over the operands of a product
RECURSIVE varsOf(_)
varsOf(args) ==
  IF args = << >> THEN << >>
  ELSE (IF head(Head(args)) = "PartialDerivative" /\ op(Head(args), 2) # Null
        THEN << op(Head(args), 2) >> ELSE << >>)
       \o varsOf(Tail(args))

\* parseFraction(parser), numer and denom the two arguments read and next
\* what parser.matchExpression() returns after them
parseFraction(numer, denom, next) ==
  IF head(numer) = "PartialDerivative"
       /\ (head(denom) = "PartialDerivative"
             \/ (head(denom) = "Multiply"
                   /\ head(op(denom, 1)) = "PartialDerivative"))
  THEN
    LET degree == op(numer, 3)
        fn0 == IF op(numer, 1) = Null
               THEN (IF next = Null THEN parserError("missing", 0, 0) ELSE next)
               ELSE op(numer, 1)
        vars0 == IF head(denom) = "Multiply" THEN varsOf(denom.args)
                 ELSE IF op(denom, 2) # Null THEN << op(denom, 2) >> ELSE << >>
        vars1 == IF Len(vars0) > 1 THEN << SymbolT("List") >> \o vars0 ELSE vars0
    IN FnT("PartialDerivative",
           << fn0 >> \o vars1 \o << IF degree = Null THEN NumT("1") ELSE degree >>)
  ELSE FnT("Divide", << numer, denom >>)

ParseFraction(numer, denom, next) ==
  /\ parser.pc = "idle"
  /\ parser' = [pc |-> "fraction", numer |-> numer, denom |-> denom,
                ret |-> parseFraction(numer, denom, next)]
  /\ UNCHANGED <<heap, context, last, loop>>

NextFraction ==
  \E numer \in Numerators, denom \in Denominators, next \in {Null, SymbolT("f")} :
    ParseFraction(numer, denom, next)

SpecFraction == InitParse /\ [][NextFraction]_vars

\* C22: parseFraction returns ['Divide', numer, denom] unless the numerator
\* is a partial-derivative marker and the denominator is one or a product
\* with one among its operands, at any position; then it returns a
\* PartialDerivative with the function first, every variable found in the
\* denominator, and last the order of the numerator, 1 when it has none.
C22_FractionOrDerivative ==
  parser.pc = "fraction" =>
    LET numer == parser.numer
        denom == parser.denom
        ret == parser.ret
        marker(e) == head(e) = "PartialDerivative"
        leibniz == /\ marker(numer)
                   /\ \/ marker(denom)
                      \/ /\ head(denom) = "Multiply"
                         /\ \E i \in 1..Len(denom.args) : marker(denom.args[i])
        found == IF marker(denom)
                 THEN (IF op(denom, 2) # Null THEN {op(denom, 2)} ELSE {})
                 ELSE { op(denom.args[i], 2) :
                          i \in { j \in 1..Len(denom.args) :
                                    marker(denom.args[j]) /\ op(denom.args[j], 2) # Null } }
    IN IF ~leibniz THEN ret = FnT("Divide", << numer, denom >>)
       ELSE /\ head(ret) = "PartialDerivative"
            /\ op(numer, 1) # Null => ret.args[1] = op(numer, 1)
            /\ \A v \in found : \E i \in 2..(Len(ret.args) - 1) : ret.args[i] = v
            /\ ret.args[Len(ret.args)]
                 = (IF op(numer, 3) = Null THEN NumT("1") ELSE op(numer, 3))

-----------------------------------------------------------------------------
(* BoxedFunction.isLess, isLessEqual, isGreater, isGreaterEqual            *)
(*                                                                         *)
(* An expression is seen through its canonical flag, the sgn of its        *)
(* canonical form and asFloat of the numeric difference with rhs (null     *)
(* when the difference is not a number); rhs through rhs.isZero.  The      *)
(* results are boolean | undefined.                                        *)

Floats == {"-1", "0", "+1", "null"}
Truths == {"true", "false", "undefined"}
Comparisons == {"isLess", "isLessEqual", "isGreater", "isGreaterEqual"}
Comparands == [canonical : BOOLEAN, sgn : Signs, asFloat : Floats, rhsIsZero : Truths]

truth(b) == IF b THEN "true" ELSE "false"

\* this.canonical of an expression that is not canonical
canonicalOf(e) == [e EXCEPT !.canonical = TRUE]

\* the test of the sign when rhs is zero, then of the difference: bySgn and
\* byFloat are the comparisons with 0 that the method makes of each
compared(e, bySgn, byFloat) ==
  IF e.rhsIsZero = "true" /\ e.sgn = "null" THEN "false"
  ELSE IF e.rhsIsZero = "true" /\ e.sgn # "undefined" THEN truth(bySgn)
  ELSE IF e.asFloat = "null" THEN "undefined"
  ELSE truth(byFloat)

RECURSIVE isLess(_)
isLess(e) ==
  IF ~e.canonical THEN isLess(canonicalOf(e))
  ELSE compared(e, number(e.sgn) < 0, number(e.asFloat) < 0)

isLessEqual(e) ==
  IF ~e.canonical THEN isLess(canonicalOf(e))
  ELSE compared(e, number(e.sgn) <= 0, number(e.asFloat) <= 0 \/ number(e.asFloat) = 0)

isGreater(e) ==
  IF ~e.canonical THEN isLess(canonicalOf(e))
  ELSE compared(e, number(e.sgn) > 0, number(e.asFloat) > 0)

isGreaterEqual(e) ==
  IF ~e.canonical THEN isLess(canonicalOf(e))
  ELSE compared(e, number(e.sgn) >= 0, number(e.asFloat) >= 0 \/ number(e.asFloat) = 0)

comparison(method, e) ==
  CASE method = "isLess" -> isLess(e)
    [] method = "isLessEqual" -> isLessEqual(e)
    [] method = "isGreater" -> isGreater(e)
    [] OTHER -> isGreaterEqual(e)

\* e.method(rhs), and the same method on e.canonical
Compare(method) ==
  /\ last.op = "box"
  /\ last' = Last(method, last.e,
                  [self |-> comparison(method, last.e),
                   canonical |-> comparison(method, canonicalOf(last.e))])
  /\ UNCHANGED <<heap, context, loop, parser>>

InitCompare ==
  /\ \E e \in Comparands : last = Last("box", e, Undefined)
  /\ heap = Symbols
  /\ context = << LibraryScope >>
  /\ loop = LoopIdle
  /\ parser = ParserIdle

NextCompare == \E method \in Comparisons : Compare(method)

SpecCompare == InitCompare /\ [][NextCompare]_vars

\* C29: for a function expression e that is not canonical and any rhs, each
\* of e.isLess(rhs), e.isLessEqual(rhs), e.isGreater(rhs) and
\* e.isGreaterEqual(rhs) returns what the method of the same name returns on
\* e.canonical.
C29_SameAsCanonical ==
  (last.op \in Comparisons /\ ~last.e.canonical) => last.r.self = last.r.canonical

-----------------------------------------------------------------------------
(* makeCanonicalFunction and the scope of a scoped function                *)

\* One head applied k times to x: heads[1](heads[2](... x))
RECURSIVE nest(_)
nest(heads) ==
  IF heads = << >> THEN Sym
  ELSE Node([head |-> Head(heads), hx |-> << >>], << nest(Tail(heads)) >>)

ScopedHeads == {"Sum", "Lambda", "Negate", "Error"}
ScopedTrees == { nest(heads) : heads \in UNION { [1..n -> ScopedHeads] : n \in 1..MaxNesting } }

InitScoped ==
  /\ \E t \in ScopedTrees : heap = box(Symbols, t).h
  /\ context = << LibraryScope >>
  /\ last = Last("box", Undefined, Undefined)
  /\ loop = LoopIdle
  /\ parser = ParserIdle

NextScoped == \E e \in Functions : CanonicalOf(e)

SpecScoped == InitScoped /\ [][NextScoped]_vars

\* C26: makeCanonicalFunction leaves the scope stack of the engine at the
\* depth it had at entry on every return path: no read of a canonical form
\* changes the depth of the scope stack.
C26_ScopeDepthKept == [][Len(context') = Len(context)]_vars

-----------------------------------------------------------------------------
(* BoxedFunction.value, numericValue and unbind                            *)

\* get isPure(): a symbol is pure
RECURSIVE isPure(_, _)
isPure(h, e) ==
  IF h[e].kind = "sym" THEN TRUE
  ELSE IF ~isCanonical(h, e) THEN FALSE
  ELSE IF functionDefinition(h, e) # UndefinedDef
            /\ ~FunctionDefs[functionDefinition(h, e)].pure THEN FALSE
  ELSE \A i \in 1..Len(h[e].ops) : isPure(h, h[e].ops[i])

\* this._value = this.evaluate(); return this._value
storeValue(e, ev) == [ev EXCEPT !.h = [ev.h EXCEPT ![e].value = ev.r]]

\* this._numericValue = v === this ? undefined : v; return this._numericValue
storeNumericValue(e, v) ==
  IF v.r = e THEN [v EXCEPT !.r = Undefined]
  ELSE [v EXCEPT !.h = [v.h EXCEPT ![e].numericValue = v.r]]

\* this.canonical.value ?? this.canonical
valueOr(c, v) == IF v.r = Undefined THEN addN([v EXCEPT !.r = c.r], c.n) ELSE addN(v, c.n)

RECURSIVE value(_, _, _)
\* get value() without `if (this._value) return this._value`
valueEvaluated(h, ctx, e) ==
  IF h[e].kind = "sym" THEN Result(h, ctx, 0, h[e].value)
  ELSE IF ~isCanonical(h, e) THEN
    valueOr(canonical(h, ctx, e),
            value(canonical(h, ctx, e).h, canonical(h, ctx, e).ctx, canonical(h, ctx, e).r))
  ELSE IF ~isPure(h, e) THEN Result(h, ctx, 0, Undefined)
  ELSE storeValue(e, apply(h, ctx, e, "evaluate"))

\* get value()
value(h, ctx, e) ==
  IF h[e].kind = "sym" THEN Result(h, ctx, 0, h[e].value)
  ELSE IF ~isCanonical(h, e) THEN
    valueOr(canonical(h, ctx, e),
            value(canonical(h, ctx, e).h, canonical(h, ctx, e).ctx, canonical(h, ctx, e).r))
  ELSE IF ~isPure(h, e) THEN Result(h, ctx, 0, Undefined)
  ELSE IF h[e].value # Undefined THEN Result(h, ctx, 0, h[e].value)
  ELSE storeValue(e, apply(h, ctx, e, "evaluate"))

\* get numericValue()
RECURSIVE numericValue(_, _, _)
numericValue(h, ctx, e) ==
  IF h[e].numericValue # Undefined THEN Result(h, ctx, 0, h[e].numericValue)
  ELSE IF h[e].kind = "sym" THEN Result(h, ctx, 0, Undefined)
  ELSE IF ~isCanonical(h, e) THEN
    addN(numericValue(canonical(h, ctx, e).h, canonical(h, ctx, e).ctx,
                      canonical(h, ctx, e).r), canonical(h, ctx, e).n)
  ELSE IF ~isPure(h, e) THEN Result(h, ctx, 0, Undefined)
  ELSE storeNumericValue(e, apply(h, ctx, e, "N"))

ValueHeads == {"Sin", "Random", "Error"}
ValueTrees ==
  { nest(heads) : heads \in UNION { [1..n -> ValueHeads] : n \in 1..MaxArity } }
    \cup { Node([head |-> hd, hx |-> << >>], << >>) : hd \in ValueHeads }
\* room for the nodes of an expression, their canonical forms and values
ValueHeap == MaxHeap + 1

ReadValueOf(getter, e, res) ==
  /\ Len(res.h) <= ValueHeap
  /\ heap' = res.h
  /\ context' = res.ctx
  /\ last' = Last(getter, e, res.r)
  /\ UNCHANGED <<loop, parser>>

ReadValue(e) == ReadValueOf("value", e, value(heap, context, e))
ReadNumericValue(e) == ReadValueOf("numericValue", e, numericValue(heap, context, e))

InitValue ==
  /\ \E t \in ValueTrees : heap = box(Symbols, t).h
  /\ context = << LibraryScope >>
  /\ last = Last("box", Undefined, Undefined)
  /\ loop = LoopIdle
  /\ parser = ParserIdle

NextValue ==
  \/ \E e \in Functions : CanonicalOf(e)
  \/ \E e \in Functions : ReadValue(e)
  \/ \E e \in Functions : ReadNumericValue(e)
  \/ \E e \in Functions : Unbind(e)

SpecValue == InitValue /\ [][NextValue]_vars

\* the step reads a getter of a function expression that is canonical and pure
PureRead(getter) ==
  /\ last'.op = getter
  /\ isCanonical(heap, last'.e)
  /\ isPure(heap, last'.e)

\* unbind() clears the two stored values of its target and nothing else
UnbindClears ==
  last'.op = "unbind" =>
    heap' = [heap EXCEPT ![last'.e].value = Undefined,
                         ![last'.e].numericValue = Undefined]

\* an expression that is not pure has no stored value
ImpureStoresNothing ==
  \A e \in 1..Len(heap') :
    (heap'[e].kind = "fn" /\ ~isPure(heap', e)) =>
      (heap'[e].value = Undefined /\ heap'[e].numericValue = Undefined)

\* a read of value: the stored object when there is one, else the result of
\* evaluate(), which is stored
ValueFillsOnce ==
  PureRead("value") =>
    IF heap[last'.e].value # Undefined
    THEN heap' = heap /\ last'.r = heap[last'.e].value
    ELSE last'.r # Undefined /\ heap'[last'.e].value = last'.r

-----------------------------------------------------------------------------
(* parseBigOp: the parse handler of \sum and \prod                         *)
(*                                                                         *)
(* The handler reads the scripts that follow the command, declares the     *)
(* index variable in a new scope, parses the body and pops the scope.      *)
(* A script is a token _ or ^ with its required argument; the body is the  *)
(* result of parser.matchExpression, null when nothing could be parsed.    *)

Script(kind, arg) == [kind |-> kind, arg |-> arg]
ScriptArguments ==
  { SymbolT("n"), SymbolT("Nothing"), NumT("2"), EmptySequence,
    FnT("Equal", << SymbolT("n"), NumT("1") >>) }
Scripts == { Script(k, a) : k \in {"_", "^"}, a \in ScriptArguments }
ScriptStreams == UNION { [1..n -> Scripts] : n \in 0..MaxScripts }
Bodies == { Null, SymbolT("x"), SymbolT("n") }

isEmptySequence(expr) == head(expr) = "Sequence" /\ Len(expr.args) = 0
symbol(expr) == IF expr.kind = "sym" THEN expr.fn ELSE ""

\* the while loop: scripts are consumed until both sub and sup are set or
\* the next token is neither _ nor ^; index is the first script not consumed
RECURSIVE matchScripts(_, _, _, _)
matchScripts(scripts, index, sub, sup) ==
  IF ~(sub # Null /\ sup # Null) /\ index <= Len(scripts)
  THEN IF scripts[index].kind = "_"
       THEN matchScripts(scripts, index + 1, scripts[index].arg, sup)
       ELSE matchScripts(scripts, index + 1, sub, scripts[index].arg)
  ELSE [sub |-> sub, sup |-> sup, index |-> index]

nothingToNull(script) ==
  IF script = SymbolT("Nothing") \/ isEmptySequence(script) THEN Null ELSE script

indexOf(sub) == IF head(sub) = "Equal" THEN op(sub, 1) ELSE sub
lowerOf(sub) == IF head(sub) = "Equal" THEN op(sub, 2) ELSE Null

\* pushScope({symbolTable: {symbols: [{name: sym, domain: 'Integer'}]}})
pushIndexScope(ctx, sym) ==
  IF sym # "" THEN Append(ctx, { << sym, "Integer" >> }) ELSE ctx

popNever(ctx, sym) == ctx
popIndexScope(ctx, sym) == IF sym # "" THEN popScope(ctx) ELSE ctx

\* subs(fn, {[sym]: '_'}) on a parsed expression
RECURSIVE subsIndex(_, _)
subsIndex(expr, sym) ==
  IF expr.kind = "sym" THEN (IF expr.fn = sym THEN SymbolT("_") ELSE expr)
  ELSE IF expr.kind = "fn"
       THEN FnT(expr.fn, [i \in 1..Len(expr.args) |-> subsIndex(expr.args[i], sym)])
       ELSE expr

orElse(expr, default) == IF expr = Null THEN default ELSE expr

\* the value returned for \sum: fn is the parsed body
bigOp(name, fn0, sub, sup) ==
  LET index == indexOf(sub)
      lower == lowerOf(sub)
      sym == symbol(index)
      body == IF fn0 # Null /\ sym # ""
              THEN FnT("Lambda", << subsIndex(fn0, sym) >>) ELSE fn0
  IN IF body = Null THEN FnT(name, << >>)
     ELSE IF sup # Null
          THEN FnT(name, << body, FnT("Tuple", << orElse(index, SymbolT("Nothing")),
                                               orElse(lower, NumT("1")), sup >>) >>)
     ELSE IF lower # Null
          THEN FnT(name, << body, FnT("Tuple", << orElse(index, SymbolT("Nothing")), lower >>) >>)
     ELSE IF index # Null
          THEN FnT(name, << body, FnT("Tuple", << index >>) >>)
     ELSE FnT(name, << body >>)

\* parseBigOp up to the end of the while loop and the two normalisations
MatchScripts ==
  /\ parser.pc = "idle"
  /\ \E scripts \in ScriptStreams :
       LET read == matchScripts(scripts, 1, Null, Null)
       IN parser' = [pc |-> "scripts", scripts |-> scripts, index |-> read.index,
                     sub |-> nothingToNull(read.sub), sup |-> nothingToNull(read.sup),
                     sym |-> symbol(indexOf(nothingToNull(read.sub))),
                     entry |-> Len(context), during |-> 0, fn |-> Null, ret |-> Null]
  /\ UNCHANGED <<heap, context, last, loop>>

\* if (sym) parser.computeEngine?.pushScope(...)
PushIndexScope ==
  /\ parser.pc = "scripts"
  /\ context' = pushIndexScope(context, parser.sym)
  /\ parser' = [parser EXCEPT !.pc = "body"]
  /\ UNCHANGED <<heap, last, loop>>

\* let fn = parser.matchExpression({minPrec: 266})
MatchBody(body) ==
  /\ parser.pc = "body"
  /\ parser' = [parser EXCEPT !.pc = "pop", !.fn = body, !.during = Len(context)]
  /\ UNCHANGED <<heap, context, last, loop>>

\* if (sym) parser.computeEngine?.popScope(), then one of the five returns
PopIndexScope ==
  /\ parser.pc = "pop"
  /\ context' = popIndexScope(context, parser.sym)
  /\ parser' = [parser EXCEPT !.pc = "done",
                  !.ret = bigOp("Sum", parser.fn, parser.sub, parser.sup)]
  /\ UNCHANGED <<heap, last, loop>>

NextBigOp ==
  \/ MatchScripts
  \/ PushIndexScope
  \/ \E body \in Bodies : MatchBody(body)
  \/ PopIndexScope

SpecBigOp == InitParse /\ [][NextBigOp]_vars

\* the scripts of kind k among the first n of a stream
scriptsOf(scripts, k, n) == { i \in 1..n : i <= Len(scripts) /\ scripts[i].kind = k }

\* C23: parseBigOp consumes at most one subscript and at most one
\* superscript, in either order: of the scripts it has consumed at most one
\* is a subscript and at most one a superscript, and the bound it keeps is
\* the first one read.
C23_OneOfEach ==
  parser.pc = "scripts" =>
    \A k \in {"_", "^"} :
      LET read == scriptsOf(parser.scripts, k, parser.index - 1)
          kept == IF k = "_" THEN parser.sub ELSE parser.sup
      IN /\ Cardinality(read) <= 1
         /\ \A i \in read : kept = nothingToNull(parser.scripts[i].arg)

\* C25: parseBigOp pushes a scope that declares the index variable with
\* domain Integer before the body is parsed, exactly when the subscript names
\* a symbol; the body is parsed while that scope is the innermost one; the
\* scope is popped after the body, and at the return the scope stack has the
\* depth it had at entry.
C25_IndexScope ==
  /\ parser.pc = "body" =>
       IF parser.sym # ""
       THEN /\ Len(context) = parser.entry + 1
            /\ context[Len(context)] = { << parser.sym, "Integer" >> }
       ELSE Len(context) = parser.entry
  /\ parser.pc \in {"pop", "done"} =>
       parser.during = parser.entry + (IF parser.sym # "" THEN 1 ELSE 0)
  /\ parser.pc = "done" => Len(context) = parser.entry

C25_Witness ==
  /\ parser.pc = "done"
  /\ parser.sym = "n"
  /\ parser.during = parser.entry + 1
  /\ Len(context) = parser.entry
  /\ head(parser.ret) = "Sum"
  /\ head(op(parser.ret, 1)) = "Lambda"

-----------------------------------------------------------------------------
(* serializeAdd, serializeMultiply and numeratorDenominator                *)
(*                                                                         *)
(* The LaTeX produced is kept as a term that says which path made it and   *)
(* from which expression: how is "empty" (''), "one" ('1'), "fraction"     *)
(* (what serializer.serialize makes of a Divide), "sum", "product", "atom",*)
(* or "power"; level is serializer.level when the function returns.        *)

Latex(how, of, level) == [how |-> how, of |-> of, level |-> level]

NumberNames == {"-2", "-1", "1", "2", "3"}
isNumber(expr) == expr.kind = "num" /\ expr.fn \in NumberNames
\* machineValue(expr) of a number; NaN is the answer isNumber(expr) = FALSE
machineValue(expr) ==
  CASE expr.fn = "-2" -> -2 [] expr.fn = "-1" -> -1 [] expr.fn = "1" -> 1
    [] expr.fn = "2" -> 2 [] OTHER -> 3
Number(v) == NumT(ToString(v))
nops(expr) == IF expr.kind = "fn" THEN Len(expr.args) ELSE 0

\* rationalValue(arg): [null, null] on a symbol and on a number
rationalValue(arg) == << Null, Null >>

\* what one operand of the product adds to the numerator
numeratorOf(arg) ==
  IF head(arg) = "Power"
  THEN IF head(op(arg, 2)) = "Negate" THEN << >>
       ELSE IF isNumber(op(arg, 2)) /\ machineValue(op(arg, 2)) < 0 THEN << >>
       ELSE << arg >>
  ELSE IF head(arg) = "Rational" /\ nops(arg) = 2
       THEN IF isNumber(op(arg, 1)) /\ machineValue(op(arg, 1)) = 1
            THEN << >> ELSE << op(arg, 1) >>
  ELSE IF rationalValue(arg)[1] # Null
       THEN (IF rationalValue(arg)[1] # NumT("1") THEN << rationalValue(arg)[1] >> ELSE << >>)
       ELSE << arg >>

\* what one operand of the product adds to the denominator
denominatorOf(arg) ==
  IF head(arg) = "Power"
  THEN IF head(op(arg, 2)) = "Negate"
       THEN IF op(arg, 1) # Null /\ op(op(arg, 2), 1) # Null
            THEN << FnT("Power", << op(arg, 1), op(op(arg, 2), 1) >>) >> ELSE << >>
       ELSE IF isNumber(op(arg, 2)) /\ machineValue(op(arg, 2)) = -1
            THEN (IF op(arg, 1) # Null THEN << op(arg, 1) >> ELSE << >>)
       ELSE IF isNumber(op(arg, 2)) /\ machineValue(op(arg, 2)) < 0
            THEN (IF op(arg, 1) # Null
                  THEN << FnT("Power", << op(arg, 1), Number(-machineValue(op(arg, 2))) >>) >>
                  ELSE << >>)
       ELSE << >>
  ELSE IF head(arg) = "Rational" /\ nops(arg) = 2
       THEN IF isNumber(op(arg, 2)) /\ machineValue(op(arg, 2)) = 1
            THEN << >> ELSE << op(arg, 2) >>
  ELSE IF rationalValue(arg)[1] # Null THEN << rationalValue(arg)[2] >> ELSE << >>

RECURSIVE collect(_, _, _)
collect(args, i, numer) ==
  IF i > Len(args) THEN << >>
  ELSE (IF numer THEN numeratorOf(args[i]) ELSE denominatorOf(args[i]))
         \o collect(args, i + 1, numer)

numeratorDenominator(expr) ==
  IF head(expr) # "Multiply" THEN << << >>, << >> >>
  ELSE << collect(expr.args, 1, TRUE), collect(expr.args, 1, FALSE) >>

\* numer.length === 1 ? numer[0] : [MULTIPLY, ...numer]
productOf(factors) == IF Len(factors) = 1 THEN factors[1] ELSE FnT("Multiply", factors)

restoreNever(level) == level
restore(level) == level + 1
restored(latex) == [latex EXCEPT !.level = restore(latex.level)]
left(latex) == [latex EXCEPT !.level = latex.level - 1]

RECURSIVE serialize(_, _)
RECURSIVE serializeAdd(_, _)
RECURSIVE serializeMultiply(_, _)
RECURSIVE serializeFraction(_, _)
RECURSIVE serializeEach(_, _, _)

\* the operands from the i-th on are serialized in turn; the level after the last
serializeEach(level, args, i) ==
  IF i > Len(args) THEN level
  ELSE serializeEach(serialize(level, args[i]).level, args, i + 1)

serializeFraction(level, expr) ==
  IF expr = Null THEN Latex("empty", expr, level)
  ELSE Latex("fraction", expr, serializeEach(level, << op(expr, 1), op(expr, 2) >>, 1))

\* the fraction branch of serializeMultiply; "" when result stays ''
fractionOf(level, numer, denom) ==
  IF Len(denom) = 0 THEN Latex("", Null, level)
  ELSE IF Len(denom) = 1 /\ denom[1] = NumT("1")
       THEN IF Len(numer) = 0 THEN Latex("one", Null, level)
            ELSE IF Len(numer) = 1 THEN serialize(level, numer[1])
            ELSE serializeMultiply(level, FnT("Multiply", numer))
  ELSE serialize(level, FnT("Divide", << productOf(numer), productOf(denom) >>))

multiplyOf(level, expr, fraction) ==
  IF fraction.how \notin {"", "empty"} THEN restored(fraction)
  ELSE restored(Latex("product", expr, serializeEach(fraction.level, expr.args, 1)))

serializeMultiply(level, expr) ==
  IF expr = Null THEN Latex("empty", expr, level)
  ELSE multiplyOf(level, expr,
         fractionOf(level - 1, numeratorDenominator(expr)[1], numeratorDenominator(expr)[2]))

serializeAdd(level, expr) ==
  IF head(expr) = "Negate"
  THEN restored(Latex("sum", expr, serialize(level - 1, op(expr, 1)).level))
  ELSE IF head(expr) = "Add"
       THEN restored(Latex("sum", expr, serializeEach(level - 1, expr.args, 1)))
  ELSE IF head(expr) = "Subtract"
       THEN restored(Latex("sum", expr,
              serializeEach(level - 1, << op(expr, 1), op(expr, 2) >>, 1)))
  ELSE restored(Latex("empty", expr, level - 1))

\* serializer.serialize(expr): the level is one more while expr is serialized
serialize(level, expr) ==
  IF expr = Null THEN Latex("empty", expr, level)
  ELSE IF head(expr) \in {"Add", "Negate", "Subtract"} THEN left(serializeAdd(level + 1, expr))
  ELSE IF head(expr) = "Multiply" THEN left(serializeMultiply(level + 1, expr))
  ELSE IF head(expr) \in {"Divide", "Rational"} THEN left(serializeFraction(level + 1, expr))
  ELSE IF expr.kind = "fn" THEN Latex("power", expr, serializeEach(level + 1, expr.args, 1) - 1)
  ELSE Latex("atom", expr, level)

X == SymbolT("x")
Factors ==
  { X, NumT("2"),
    FnT("Power", << X, NumT("-1") >>), FnT("Power", << X, NumT("-2") >>),
    FnT("Power", << X, NumT("2") >>), FnT("Power", << X, FnT("Negate", << NumT("2") >>) >>),
    FnT("Power", << NumT("1"), NumT("-1") >>),
    FnT("Rational", << NumT("1"), NumT("3") >>), FnT("Rational", << NumT("2"), NumT("3") >>),
    FnT("Rational", << NumT("2"), NumT("1") >>) }
Products == { FnT("Multiply", args) : args \in UNION { [1..n -> Factors] : n \in 0..MaxFactors } }
Terms ==
  { X, NumT("2"), FnT("Multiply", << NumT("2"), FnT("Rational", << NumT("1"), NumT("3") >>) >>),
    FnT("Multiply", << X, X >>), FnT("Add", << X, FnT("Multiply", << X, FnT("Power", << X, NumT("-1") >>) >>) >>),
    FnT("Negate", << X >>) }
Sums ==
  { FnT("Add", args) : args \in UNION { [1..n -> Terms] : n \in 0..MaxFactors } }
    \cup { FnT("Negate", << a >>) : a \in Terms }
    \cup { FnT("Subtract", << a, b >>) : a, b \in Terms }
    \cup { FnT("Subtract", << a >>) : a \in Terms }
Levels == 0..MaxLevel

Serialized(expr, level, latex) ==
  parser' = [pc |-> "serialized", expr |-> expr, level |-> level, latex |-> latex]

SerializeMultiply ==
  /\ parser.pc = "idle"
  /\ \E expr \in Products \cup {Null}, level \in Levels :
       Serialized(expr, level, serializeMultiply(level, expr))
  /\ UNCHANGED <<heap, context, last, loop>>

SerializeAdd ==
  /\ parser.pc = "idle"
  /\ \E expr \in Sums, level \in Levels :
       Serialized(expr, level, serializeAdd(level, expr))
  /\ UNCHANGED <<heap, context, last, loop>>

NextSerialize == SerializeMultiply \/ SerializeAdd

SpecSerialize == InitParse /\ [][NextSerialize]_vars

\* a Power with a negative exponent, or a Rational with a denominator other than 1
isDenominatorFactor(arg) ==
  \/ /\ head(arg) = "Power"
     /\ \/ head(op(arg, 2)) = "Negate"
        \/ isNumber(op(arg, 2)) /\ machineValue(op(arg, 2)) < 0
  \/ /\ head(arg) = "Rational"
     /\ op(arg, 2) # NumT("1")

\* C24: serializing a Multiply with at least one denominator factor (a Power
\* with a negative exponent, or a Rational with a denominator other than 1)
\* gives the serialization of the Divide of the product of the numerator
\* factors by the product of the denominator factors, and a Multiply without
\* such a factor is not serialized as a fraction.
C24_FractionIffDenominator ==
  (parser.pc = "serialized" /\ head(parser.expr) = "Multiply") =>
    LET expr == parser.expr
        nd == numeratorDenominator(expr)
    IN IF \E i \in 1..Len(expr.args) : isDenominatorFactor(expr.args[i])
       THEN /\ parser.latex.how = "fraction"
            /\ parser.latex.of = FnT("Divide", << productOf(nd[1]), productOf(nd[2]) >>)
       ELSE parser.latex.how # "fraction"

\* C30: serializeAdd and serializeMultiply leave serializer.level as it was
\* at entry on every return path: for a null expression, when the product is
\* handed to the serialization of a fraction, for an ordinary sum or product,
\* and when operands are themselves sums and products.
C30_LevelRestored ==
  parser.pc = "serialized" => parser.latex.level = parser.level

C30_Witness ==
  /\ parser.pc = "serialized"
  /\ parser.latex.level = parser.level
  /\ parser.latex.how = "sum"
  /\ \E i \in 1..Len(parser.expr.args) :
       /\ head(parser.expr.args[i]) = "Add"
       /\ \E j \in 1..Len(parser.expr.args[i].args) :
            serializeMultiply(parser.level, parser.expr.args[i].args[j]).how = "fraction"

-----------------------------------------------------------------------------
(* The rule loop of BoxedFunction.simplify (step 5/)                       *)
(*                                                                         *)
(* The loop sees expressions only through replace(rules), the cost         *)
(* function and reference identity: an expression is a name here, the      *)
(* rule set is what replace returns for each expression (null when no rule *)
(* applies) and the cost function is a positive number for each.           *)

Exprs == {"a", "b", "c"}
NullExpr == "null"

RuleSets ==
  { rs \in [Exprs -> Exprs \cup {NullExpr}] : \A e \in Exprs : rs[e] # e }
CostFunctions == [Exprs -> 1..MaxCost]
IterationLimits == 1..MaxIterationLimit

\* expr.replace(rules)
replace(rules, expr) == rules[expr]

\* cheapest with its comparison of the costs the wrong way round
cheapestReversed(costFunction, oldExpr, newExpr) ==
  IF newExpr = NullExpr THEN oldExpr
  ELSE IF oldExpr = newExpr THEN oldExpr
  ELSE IF 10 * costFunction[newExpr] >= 17 * costFunction[oldExpr] THEN newExpr
  ELSE oldExpr

\* cheapest(oldExpr, newExpr); 1.7 is 17/10
cheapest(costFunction, oldExpr, newExpr) ==
  IF newExpr = NullExpr THEN oldExpr
  ELSE IF oldExpr = newExpr THEN oldExpr
  ELSE IF 10 * costFunction[newExpr] <= 17 * costFunction[oldExpr] THEN newExpr
  ELSE oldExpr

\* the loop test without its iteration limit
continueAlways(done, iterationCount, iterationLimit) == ~done

\* while (!done && iterationCount < this.engine.iterationLimit)
continue(done, iterationCount, iterationLimit) ==
  ~done /\ iterationCount < iterationLimit

\* let iterationCount = 0; let done = false; do {
EnterLoop(e) ==
  /\ loop.pc \in {"idle", "done"}
  /\ loop' = [loop EXCEPT !.pc = "loop", !.start = e, !.expr = e,
                          !.iterationCount = 0, !.done = FALSE,
                          !.replaced = 0]
  /\ UNCHANGED <<heap, context, last, parser>>

\* one pass of the body and the test of the do ... while; the warning on
\* the iteration limit is commented out in the code: nothing is signaled
Pass ==
  /\ loop.pc = "loop"
  /\ LET newExpr == replace(loop.rules, loop.expr)
         expr == IF newExpr # NullExpr
                 THEN cheapest(loop.costFunction, newExpr, loop.expr)
                 ELSE loop.expr
         done == IF newExpr # NullExpr THEN (expr = newExpr \/ loop.done) ELSE TRUE
         iterationCount == loop.iterationCount + 1
     IN loop' = [loop EXCEPT
                   !.expr = expr,
                   !.done = done,
                   !.iterationCount = iterationCount,
                   !.replaced = loop.replaced + 1,
                   !.pc = IF continue(done, iterationCount, loop.iterationLimit)
                          THEN "loop" ELSE "done"]
  /\ UNCHANGED <<heap, context, last, parser>>

InitSimplify ==
  /\ heap = Symbols
  /\ context = << LibraryScope >>
  /\ last = Last("box", Undefined, Undefined)
  /\ parser = ParserIdle
  /\ \E rules \in RuleSets, costFunction \in CostFunctions,
        iterationLimit \in IterationLimits :
       loop = [pc |-> "idle", rules |-> rules, costFunction |-> costFunction,
               iterationLimit |-> iterationLimit, start |-> NullExpr,
               expr |-> NullExpr, iterationCount |-> 0, done |-> FALSE,
               replaced |-> 0, signals |-> << >>]

NextSimplify ==
  \/ \E e \in Exprs : EnterLoop(e)
  \/ Pass

SpecSimplify == InitSimplify /\ [][NextSimplify]_vars

\* C7: in a pass of the rule loop, when the current expression is replaced
\* by the rewritten form, the cost of the rewritten form is at most 1.7
\* times the cost of the form before the pass; a rewritten form that costs
\* more than that is rejected, and the form before the pass is kept.
C7_CostBounded ==
  [][loop.pc = "loop" =>
       LET pre == loop.expr
           rewritten == replace(loop.rules, pre)
       IN /\ loop'.expr # pre =>
               10 * loop.costFunction[loop'.expr] <= 17 * loop.costFunction[pre]
          /\ (rewritten # NullExpr
                /\ 10 * loop.costFunction[rewritten] > 17 * loop.costFunction[pre])
               => loop'.expr = pre]_vars

\* the loop has returned a rewritten form
C7_Witness ==
  /\ loop.pc = "done"
  /\ loop.expr # loop.start
  /\ loop.expr = replace(loop.rules, loop.start)

\* C8: when the rule loop returns, the returned expression is a fixpoint of
\* the rule set, or the loop made iterationLimit passes; it does not stop
\* after a successful rewrite while rules still apply and passes remain.
C8_FixpointOrLimit ==
  loop.pc = "done" =>
    \/ replace(loop.rules, loop.expr) = NullExpr
    \/ loop.iterationCount >= loop.iterationLimit

\* C9: the rule loop terminates: replace is called once per pass, a pass is
\* taken only while fewer than iterationLimit passes were made, so replace
\* is called at most iterationLimit times, and at least once when the loop
\* returns.
C9_BoundedPasses ==
  loop.pc \in {"loop", "done"} =>
    /\ loop.replaced = loop.iterationCount
    /\ loop.replaced <= loop.iterationLimit
    /\ loop.pc = "loop" => loop.iterationCount < loop.iterationLimit
    /\ loop.pc = "done" => loop.replaced >= 1

\* the loop has returned on the iteration limit with the rewrite rejected
\* on every pass
C9_Witness ==
  /\ loop.pc = "done"
  /\ ~loop.done
  /\ loop.iterationLimit > 1
  /\ loop.replaced = loop.iterationLimit
  /\ loop.expr = loop.start

\* C10: when the rule loop stops on the iteration limit and not because no
\* rule applies, a warning has been signaled to the engine.
C10_LimitSignaled ==
  (loop.pc = "done" /\ ~loop.done /\ loop.iterationCount >= loop.iterationLimit)
    => loop.signals # << >>

\* C28: the choice of the rule loop is biased towards the rewritten form: in
\* a pass whose rewritten form costs at most 1.7 times the form before the
\* pass (the same cost, or a little more, included) the rewritten form
\* becomes the current expression, and the form before the pass is kept only
\* when the rewritten form costs more than 1.7 times as much.
C28_BiasedToRewritten ==
  [][(loop.pc = "loop" /\ replace(loop.rules, loop.expr) # NullExpr) =>
       LET pre == loop.expr
           rewritten == replace(loop.rules, pre)
       IN IF 10 * loop.costFunction[rewritten] <= 17 * loop.costFunction[pre]
          THEN loop'.expr = rewritten
          ELSE loop'.expr = pre]_vars

====
